---- MODULE Spec2Model ----
(***************************************************************************)
(* MechSolver: a menu-driven mechanical-engineering calculator.  The       *)
(* formula layer is a catalog of pure functions (pc_version and            *)
(* termux_version); the only data that outlives a call is the materials    *)
(* table MATERIALS_DB.  The model is a request/response machine: from the  *)
(* idle state one formula is called with arguments drawn from small sets,  *)
(* its outcome (a returned mapping or a raised exception) is recorded, and *)
(* the caller goes back to idle.                                           *)
(*                                                                         *)
(* Arithmetic is modelled over the rationals (exact), not over IEEE        *)
(* doubles: a number is n/d * 10^e in canonical form.  Values that the     *)
(* code obtains through sqrt, fractional powers or pi are kept as terms    *)
(* over exact numbers.  Python raises ZeroDivisionError on a float         *)
(* division by zero; numpy scalars give nan/inf instead.                   *)
(***************************************************************************)
EXTENDS Integers, Sequences, FiniteSets, TLC

VARIABLES MATERIALS_DB, pc, call, outcome, remembered, frame

vars == <<MATERIALS_DB, pc, call, outcome, remembered, frame>>

-----------------------------------------------------------------------------
(* Exact numbers: n/d * 10^e with d > 0 coprime to n and to 10, 10 not     *)
(* dividing n; zero is 0/1 * 10^0.                                         *)

(* The arithmetic core is written as functions, whose arguments TLC       *)
(* evaluates once before the body runs.                                    *)

NumT == [n : Int, d : Int, e : Int]

Abs(x) == IF x < 0 THEN -x ELSE x

Gcd[a \in Nat, b \in Nat] == IF b = 0 THEN a ELSE Gcd[b, a % b]

Pow10[k \in Nat] == IF k = 0 THEN 1 ELSE 10 * Pow10[k - 1]

Zero == [n |-> 0, d |-> 1, e |-> 0]

Strip[n \in Int, d \in Int, e \in Int] ==
    IF d % 2 = 0 THEN Strip[n * 5, d \div 2, e - 1]
    ELSE IF d % 5 = 0 THEN Strip[n * 2, d \div 5, e - 1]
    ELSE IF n % 10 = 0 THEN Strip[n \div 10, d, e + 1]
    ELSE [n |-> n, d |-> d, e |-> e]

NormF[n \in Int, d \in Int, e \in Int] ==
    IF n = 0 THEN Zero
    ELSE LET s == IF d < 0 THEN -1 ELSE 1
             g == Gcd[Abs(n), Abs(d)]
         IN  Strip[(s * n) \div g, (s * d) \div g, e]

Norm(n, d, e) == NormF[n, d, e]

Num(k) == Norm(k, 1, 0)
Frac(a, b) == Norm(a, b, 0)
Dec(k, e) == Norm(k, 1, e)

MulF[a \in NumT, b \in NumT] == Norm(a.n * b.n, a.d * b.d, a.e + b.e)
DivF[a \in NumT, b \in NumT] == Norm(a.n * b.d, a.d * b.n, a.e - b.e)
AddF[a \in NumT, b \in NumT] ==
    LET m == IF a.e < b.e THEN a.e ELSE b.e
    IN  Norm(a.n * Pow10[a.e - m] * b.d + b.n * Pow10[b.e - m] * a.d, a.d * b.d, m)
NegF[a \in NumT] == [a EXCEPT !.n = -a.n]
SignF[a \in NumT] == IF a.n > 0 THEN 1 ELSE IF a.n < 0 THEN -1 ELSE 0

Mul(a, b) == MulF[a, b]
Div(a, b) == DivF[a, b]
Add(a, b) == AddF[a, b]
Neg(a) == NegF[a]
Sub(a, b) == AddF[a, NegF[b]]
Sign(a) == SignF[a]
Lt(a, b) == Sign(Sub(a, b)) < 0
Le(a, b) == Sign(Sub(a, b)) <= 0

RECURSIVE Pow(_, _)
Pow(a, k) == IF k = 0 THEN Num(1) ELSE Mul(a, Pow(a, k - 1))

(* A local assignment x = v followed by Body(x): v is evaluated once.      *)
Let(v, Body(_)) == CHOOSE r \in {Body(x) : x \in {v}} : TRUE

-----------------------------------------------------------------------------
(* Python values and outcomes of a call.                                   *)

None == <<>>
Some(x) == <<x>>
Val(o) == o[1]

NoValue == [none |-> TRUE]

Return(v) == [kind |-> "return", value |-> v, exc |-> "", msg |-> <<>>]
Raise(exc, msg) == [kind |-> "raise", value |-> NoValue, exc |-> exc, msg |-> msg]

ZeroDivisionError == Raise("ZeroDivisionError", <<"float", "division", "by", "zero">>)

Returned(o) == o.kind = "return"
Raised(o) == o.kind = "raise"
Keys(o) == DOMAIN o.value
Mentions(o, name) == \E i \in 1..Len(o.msg) : o.msg[i] = name

-----------------------------------------------------------------------------
(* thermodynamics.ideal_gas_law, both variants.                            *)

GasConstant == Dec(8314, -3)

(* A variant of the arity check that lets a call with nothing omitted through. *)
pc_ideal_gas_law_AtMostOne(pressure, volume, moles, temperature, gas_constant) ==
    IF Cardinality({i \in 1..4 : <<pressure, volume, moles, temperature>>[i] = None}) > 1
    THEN Raise("ValueError", <<"Exactly", "three", "parameters", "must", "be",
                               "provided", "to", "solve", "for", "the", "fourth">>)
    ELSE IF pressure = None
    THEN IF Val(volume) = Zero THEN ZeroDivisionError
         ELSE Return("pressure" :>
                     Div(Mul(Mul(Val(moles), gas_constant), Val(temperature)), Val(volume)))
    ELSE IF volume = None
    THEN IF Val(pressure) = Zero THEN ZeroDivisionError
         ELSE Return("volume" :>
                     Div(Mul(Mul(Val(moles), gas_constant), Val(temperature)), Val(pressure)))
    ELSE IF moles = None
    THEN IF Mul(gas_constant, Val(temperature)) = Zero THEN ZeroDivisionError
         ELSE Return("moles" :>
                     Div(Mul(Val(pressure), Val(volume)), Mul(gas_constant, Val(temperature))))
    ELSE IF Mul(Val(moles), gas_constant) = Zero THEN ZeroDivisionError
         ELSE Return("temperature" :>
                     Div(Mul(Val(pressure), Val(volume)), Mul(Val(moles), gas_constant)))

(* A variant whose pressure formula leaves the gas constant out.           *)
pc_ideal_gas_law_PressureWithoutR(pressure, volume, moles, temperature, gas_constant) ==
    IF Cardinality({i \in 1..4 : <<pressure, volume, moles, temperature>>[i] = None}) # 1
    THEN Raise("ValueError", <<"Exactly", "three", "parameters", "must", "be",
                               "provided", "to", "solve", "for", "the", "fourth">>)
    ELSE IF pressure = None
    THEN IF Val(volume) = Zero THEN ZeroDivisionError
         ELSE Return("pressure" :> Div(Mul(Val(moles), Val(temperature)), Val(volume)))
    ELSE IF volume = None
    THEN IF Val(pressure) = Zero THEN ZeroDivisionError
         ELSE Return("volume" :>
                     Div(Mul(Mul(Val(moles), gas_constant), Val(temperature)), Val(pressure)))
    ELSE IF moles = None
    THEN IF Mul(gas_constant, Val(temperature)) = Zero THEN ZeroDivisionError
         ELSE Return("moles" :>
                     Div(Mul(Val(pressure), Val(volume)), Mul(gas_constant, Val(temperature))))
    ELSE IF Mul(Val(moles), gas_constant) = Zero THEN ZeroDivisionError
         ELSE Return("temperature" :>
                     Div(Mul(Val(pressure), Val(volume)), Mul(Val(moles), gas_constant)))

pc_ideal_gas_law(pressure, volume, moles, temperature, gas_constant) ==
    IF Cardinality({i \in 1..4 : <<pressure, volume, moles, temperature>>[i] = None}) # 1
    THEN Raise("ValueError", <<"Exactly", "three", "parameters", "must", "be",
                               "provided", "to", "solve", "for", "the", "fourth">>)
    ELSE IF pressure = None
    THEN IF Val(volume) = Zero THEN ZeroDivisionError
         ELSE Return("pressure" :>
                     Div(Mul(Mul(Val(moles), gas_constant), Val(temperature)), Val(volume)))
    ELSE IF volume = None
    THEN IF Val(pressure) = Zero THEN ZeroDivisionError
         ELSE Return("volume" :>
                     Div(Mul(Mul(Val(moles), gas_constant), Val(temperature)), Val(pressure)))
    ELSE IF moles = None
    THEN IF Mul(gas_constant, Val(temperature)) = Zero THEN ZeroDivisionError
         ELSE Return("moles" :>
                     Div(Mul(Val(pressure), Val(volume)), Mul(gas_constant, Val(temperature))))
    ELSE IF Mul(Val(moles), gas_constant) = Zero THEN ZeroDivisionError
         ELSE Return("temperature" :>
                     Div(Mul(Val(pressure), Val(volume)), Mul(Val(moles), gas_constant)))

termux_ideal_gas_law(pressure, volume, moles, temperature, gas_constant) ==
    IF Cardinality({i \in 1..4 : <<pressure, volume, moles, temperature>>[i] = None}) # 1
    THEN Raise("ValueError", <<"Exactly", "three", "parameters", "must", "be", "provided">>)
    ELSE IF pressure = None
    THEN IF Val(volume) = Zero THEN ZeroDivisionError
         ELSE Return("pressure" :>
                     Div(Mul(Mul(Val(moles), gas_constant), Val(temperature)), Val(volume)))
    ELSE IF volume = None
    THEN IF Val(pressure) = Zero THEN ZeroDivisionError
         ELSE Return("volume" :>
                     Div(Mul(Mul(Val(moles), gas_constant), Val(temperature)), Val(pressure)))
    ELSE IF moles = None
    THEN IF Mul(gas_constant, Val(temperature)) = Zero THEN ZeroDivisionError
         ELSE Return("moles" :>
                     Div(Mul(Val(pressure), Val(volume)), Mul(gas_constant, Val(temperature))))
    ELSE IF Mul(Val(moles), gas_constant) = Zero THEN ZeroDivisionError
         ELSE Return("temperature" :>
                     Div(Mul(Val(pressure), Val(volume)), Mul(Val(moles), gas_constant)))

-----------------------------------------------------------------------------
(* numpy scalars: sqrt of a negative number and 0/0 give nan, x/0 gives    *)
(* +-inf (a RuntimeWarning, no exception).  A finite irrational value is   *)
(* kept as a term naming the function and its exact arguments.             *)

NaN == [fp |-> "nan", fn |-> "", args |-> <<>>]
Inf(sign) == [fp |-> IF sign < 0 THEN "-inf" ELSE "inf", fn |-> "", args |-> <<>>]
Term(fn, args) == [fp |-> "finite", fn |-> fn, args |-> args]
IsNaN(x) == x.fp = "nan"

np_sqrt(x) == IF Sign(x) < 0 THEN NaN ELSE Term("sqrt", <<x>>)

(* cos and sin of an angle given in degrees, exact at multiples of 90.     *)
CosDeg(deg) == Num(<<1, 0, -1, 0>>[((deg % 360) \div 90) + 1])
SinDeg(deg) == Num(<<0, 1, 0, -1>>[((deg % 360) \div 90) + 1])

-----------------------------------------------------------------------------
(* kinematics.four_bar_mechanism (pc).                                     *)

(* sign of -B + sqrt(disc), for disc >= 0 *)
FourBarNumeratorSign(B, disc) ==
    IF Sign(B) <= 0
    THEN (IF Sign(B) = 0 /\ Sign(disc) = 0 THEN 0 ELSE 1)
    ELSE Sign(Sub(disc, Mul(B, B)))

solve_position(crank_length, coupler_length, rocker_length, ground_length, deg) ==
    LET a == crank_length
        b == coupler_length
        c == rocker_length
        d == ground_length
    IN
    Let(Mul(Mul(Num(2), Mul(a, d)), CosDeg(deg)), LAMBDA A :
    Let(Mul(Mul(Num(2), Mul(a, d)), SinDeg(deg)), LAMBDA B :
    Let(Add(Add(Sub(Add(Mul(a, a), Mul(d, d)), Mul(b, b)), Mul(c, c)),
            Mul(Mul(Num(2), Mul(a, d)), CosDeg(deg))), LAMBDA C :
    Let(Sub(Add(Mul(A, A), Mul(B, B)), Mul(C, C)), LAMBDA disc :
    Let(np_sqrt(disc), LAMBDA root :
    Let(Sub(C, A), LAMBDA den :
    Let(IF IsNaN(root) THEN NaN
        ELSE IF den = Zero
             THEN (IF FourBarNumeratorSign(B, disc) = 0 THEN NaN
                   ELSE Inf(FourBarNumeratorSign(B, disc)))
             ELSE Term("(-B+sqrt(disc))/(C-A)", <<B, disc, den>>), LAMBDA quotient :
    Let(IF IsNaN(quotient) THEN NaN
        ELSE IF quotient.fp = "finite" THEN Term("2*arctan", quotient.args)
        ELSE Term("pi", <<Num(IF quotient.fp = "inf" THEN 1 ELSE -1)>>), LAMBDA beta :
    Let(IF IsNaN(beta) THEN NaN
        ELSE Term("arctan2(c*sin(beta)-a*sin(theta),c*cos(beta)-a*cos(theta))",
                  <<a, c, Num(deg)>> \o beta.args), LAMBDA gamma :
    <<beta, gamma>>)))))))))

np_degrees(value) ==
    Let(value, LAMBDA x : IF IsNaN(x) THEN NaN ELSE Term("degrees", <<x.fn>> \o x.args))

(* crank_angle is [list |-> FALSE, at |-> <<deg>>] for a number and        *)
(* [list |-> TRUE, at |-> <<deg, ...>>] for a list of numbers.             *)
four_bar_mechanism(crank_length, coupler_length, rocker_length, ground_length, crank_angle) ==
    LET pos(deg) == solve_position(crank_length, coupler_length, rocker_length,
                                   ground_length, deg)
    IN  IF ~crank_angle.list
        THEN Let(pos(crank_angle.at[1]), LAMBDA bg :
                 Return([rocker_angle |-> np_degrees(bg[1]),
                         coupler_angle |-> np_degrees(bg[2])]))
        ELSE Let([i \in 1..Len(crank_angle.at) |-> pos(crank_angle.at[i])], LAMBDA bgs :
                 Return([rocker_angles |->
                             [i \in 1..Len(crank_angle.at) |-> np_degrees(bgs[i][1])],
                         coupler_angles |->
                             [i \in 1..Len(crank_angle.at) |-> np_degrees(bgs[i][2])]]))

-----------------------------------------------------------------------------
(* fluid_mechanics.open_channel_flow (pc).                                 *)

Gravity == Dec(981, -2)

(* froude < 1 for a finite froude = velocity / sqrt(9.81 * flow_depth)     *)
(* with velocity = (1/n) * R^(2/3) * sqrt(S): all factors are >= 0, so the *)
(* comparison is decided exactly on the sixth powers.                      *)
FroudeBelowOne(manning_n, hydraulic_radius, slope, flow_depth) ==
    Lt(Mul(Pow(hydraulic_radius, 4), Pow(slope, 3)),
       Mul(Pow(Mul(Gravity, flow_depth), 3), Pow(manning_n, 6)))

rectangular_channel(channel_width, flow_depth, slope, manning_n) ==
    Let(Mul(channel_width, flow_depth), LAMBDA area :
    Let(Add(channel_width, Mul(Num(2), flow_depth)), LAMBDA wetted_perimeter :
    IF wetted_perimeter = Zero THEN ZeroDivisionError
    ELSE IF manning_n = Zero THEN ZeroDivisionError
    ELSE
    Let(Div(area, wetted_perimeter), LAMBDA hydraulic_radius :
    Let(IF IsNaN(np_sqrt(slope)) THEN NaN
        ELSE Term("(1/n)*R^(2/3)*sqrt(S)", <<manning_n, hydraulic_radius, slope>>),
        LAMBDA velocity :
    Let(hydraulic_radius = Zero \/ slope = Zero, LAMBDA velocity_is_zero :
    Let(IF IsNaN(velocity) THEN NaN
        ELSE Term("velocity*area", velocity.args \o <<area>>), LAMBDA flow_rate :
    Let(IF IsNaN(velocity) \/ IsNaN(np_sqrt(Mul(Gravity, flow_depth))) THEN NaN
        ELSE IF flow_depth = Zero
             THEN (IF velocity_is_zero THEN NaN ELSE Inf(1))
             ELSE Term("velocity/sqrt(9.81*depth)", velocity.args \o <<flow_depth>>),
        LAMBDA froude :
    Return([flow_rate |-> flow_rate,
            velocity |-> velocity,
            froude_number |-> froude,
            flow_type |->
                IF froude.fp = "finite"
                   /\ FroudeBelowOne(manning_n, hydraulic_radius, slope, flow_depth)
                THEN "subcritical" ELSE "supercritical"]))))))))

(* A variant that rejects only the name 'trapezoidal' and computes the     *)
(* rectangular formulas for every other name.                              *)
open_channel_flow_RejectTrapezoidal(channel_width, flow_depth, slope, manning_n, channel_type) ==
    IF channel_type # "trapezoidal"
    THEN rectangular_channel(channel_width, flow_depth, slope, manning_n)
    ELSE Raise("ValueError",
               <<"Only", "rectangular", "channels", "are", "currently", "supported">>)

open_channel_flow(channel_width, flow_depth, slope, manning_n, channel_type) ==
    IF channel_type = "rectangular"
    THEN rectangular_channel(channel_width, flow_depth, slope, manning_n)
    ELSE Raise("ValueError",
               <<"Only", "rectangular", "channels", "are", "currently", "supported">>)

-----------------------------------------------------------------------------
(* stress_analysis.thermal_stress and pressure_vessel_stress (pc).         *)

thermal_stress(temperature_change, thermal_expansion, youngs_modulus, constraint) ==
    IF constraint = "full"
    THEN Return([thermal_stress |->
                     Mul(Mul(Neg(thermal_expansion), youngs_modulus), temperature_change),
                 thermal_strain |-> Zero])
    ELSE Return([thermal_stress |->
                     Mul(Mul(Mul(Dec(-5, -1), thermal_expansion), youngs_modulus),
                         temperature_change),
                 thermal_strain |->
                     Mul(Mul(Dec(5, -1), thermal_expansion), temperature_change)])

pressure_vessel_stress(pressure, radius, thickness, vessel_type) ==
    IF vessel_type = "thin_cylinder"
    THEN IF thickness = Zero THEN ZeroDivisionError
         ELSE Let(Div(Mul(pressure, radius), thickness), LAMBDA hoop_stress :
              Let(Div(Mul(pressure, radius), Mul(Num(2), thickness)),
                  LAMBDA longitudinal_stress :
              Return([hoop_stress |-> hoop_stress,
                      longitudinal_stress |-> longitudinal_stress,
                      von_mises_stress |->
                          np_sqrt(Add(Sub(Mul(hoop_stress, hoop_stress),
                                          Mul(hoop_stress, longitudinal_stress)),
                                      Mul(longitudinal_stress, longitudinal_stress)))])))
    ELSE IF vessel_type = "thick_cylinder"
    THEN Let(Add(radius, thickness), LAMBDA r_o :
         Let(radius, LAMBDA r_i :
         IF Mul(r_i, r_i) = Zero THEN ZeroDivisionError
         ELSE Let(Div(Mul(r_o, r_o), Mul(r_i, r_i)), LAMBDA c :
              IF Sub(c, Num(1)) = Zero THEN ZeroDivisionError
              ELSE Return([hoop_stress_inner |->
                               Div(Mul(pressure, Add(c, Num(1))), Sub(c, Num(1))),
                           hoop_stress_outer |->
                               Div(Mul(Num(2), pressure), Sub(c, Num(1))),
                           radial_stress_inner |-> Neg(pressure),
                           radial_stress_outer |-> Zero]))))
    ELSE IF vessel_type = "sphere"
    THEN IF Mul(Num(2), thickness) = Zero THEN ZeroDivisionError
         ELSE Let(Div(Mul(pressure, radius), Mul(Num(2), thickness)), LAMBDA hoop_stress :
              Return([hoop_stress |-> hoop_stress, von_mises_stress |-> hoop_stress]))
    ELSE Raise("ValueError", <<"Invalid", "vessel", "type", "Choose", "thin_cylinder",
                               "thick_cylinder", "or", "sphere">>)

-----------------------------------------------------------------------------
(* fluid_mechanics.weir_flow (pc).  flow_rate is coef * sqrt(2g) * head^k. *)

(* A variant whose last branch takes every other name as 'v-notch'.       *)
weir_flow_ElseVNotch(weir_height, weir_width, head, weir_type) ==
    IF weir_type = "rectangular"
    THEN LET discharge_coeff == Dec(61, -2)
         IN  Return([flow_rate |->
                         Term("coef*sqrt(2*g)*head^(3/2)",
                              <<Mul(Mul(Frac(2, 3), discharge_coeff), weir_width), head>>),
                     discharge_coefficient |-> discharge_coeff])
    ELSE LET discharge_coeff == Dec(59, -2)
             tan_half_theta == Num(1)
         IN  Return([flow_rate |->
                         Term("coef*sqrt(2*g)*head^(5/2)",
                              <<Mul(Mul(Frac(8, 15), discharge_coeff), tan_half_theta), head>>),
                     discharge_coefficient |-> discharge_coeff])

weir_flow(weir_height, weir_width, head, weir_type) ==
    IF weir_type = "rectangular"
    THEN LET discharge_coeff == Dec(61, -2)
         IN  Return([flow_rate |->
                         Term("coef*sqrt(2*g)*head^(3/2)",
                              <<Mul(Mul(Frac(2, 3), discharge_coeff), weir_width), head>>),
                     discharge_coefficient |-> discharge_coeff])
    ELSE IF weir_type = "v-notch"
    THEN LET discharge_coeff == Dec(59, -2)
             tan_half_theta == Num(1)
         IN  Return([flow_rate |->
                         Term("coef*sqrt(2*g)*head^(5/2)",
                              <<Mul(Mul(Frac(8, 15), discharge_coeff), tan_half_theta), head>>),
                     discharge_coefficient |-> discharge_coeff])
    ELSE Raise("ValueError", <<"Invalid", "weir", "type", "Choose", "rectangular",
                               "or", "v-notch">>)

-----------------------------------------------------------------------------
(* kinematics.cam_analysis (pc).  A lift is q + s/(2*pi) with q, s exact.  *)

simple_harmonic_lift(lift, deg) ==
    [q |-> Div(Mul(lift, Sub(Num(1), CosDeg(deg))), Num(2)), over_2pi |-> Zero]

cycloidal_lift(lift, deg) ==
    [q |-> Mul(lift, Frac(deg, 360)), over_2pi |-> Neg(Mul(lift, SinDeg(deg)))]

parabolic_lift(lift, deg) ==
    IF deg < 180
    THEN [q |-> Mul(Mul(Num(2), lift), Pow(Frac(deg, 180), 2)), over_2pi |-> Zero]
    ELSE [q |-> Mul(Mul(Num(2), lift), Pow(Sub(Num(2), Frac(deg, 180)), 2)), over_2pi |-> Zero]

lift_functions == {"simple_harmonic", "cycloidal", "parabolic"}

lift_func(cam_type, lift, deg) ==
    CASE cam_type = "simple_harmonic" -> simple_harmonic_lift(lift, deg)
      [] cam_type = "cycloidal" -> cycloidal_lift(lift, deg)
      [] cam_type = "parabolic" -> parabolic_lift(lift, deg)

cam_analysis(base_circle_radius, lift, angle, cam_type) ==
    IF cam_type \notin lift_functions
    THEN Raise("ValueError", <<"Unsupported", "cam", "type", "Choose", "from",
                               "simple_harmonic", "cycloidal", "parabolic">>)
    ELSE Let([i \in 1..Len(angle.at) |-> lift_func(cam_type, lift, angle.at[i])],
             LAMBDA displacement :
         Let([i \in 1..Len(angle.at) |->
                 [displacement[i] EXCEPT !.q = Add(base_circle_radius, @)]],
             LAMBDA total_radius :
         IF ~angle.list
         THEN Return([displacement |-> displacement[1],
                      base_circle_radius |-> base_circle_radius,
                      total_radius |-> total_radius[1]])
         ELSE Return([displacement |-> displacement,
                      base_circle_radius |-> base_circle_radius,
                      total_radius |-> total_radius])))

-----------------------------------------------------------------------------
(* machine_design.bearing_life (pc).  A life is coef * base^p, with        *)
(* base = dynamic_capacity / load and p the load-life exponent.            *)

a1 ==
    (Dec(90, -2) :> Dec(100, -2)) @@ (Dec(95, -2) :> Dec(62, -2)) @@ (Dec(99, -2) :> Dec(21, -2))
a2 == Dec(10, -1)
a3 == Dec(10, -1)

(* A variant of the lookup that falls back to 1.0, as dict.get would.      *)
a1_subscript_GetDefault(reliability) ==
    IF reliability \in DOMAIN a1
    THEN [found |-> TRUE, factor |-> a1[reliability]]
    ELSE [found |-> TRUE, factor |-> Dec(10, -1)]

(* a1[reliability]: KeyError for a key that is not in the dict.            *)
a1_subscript(reliability) ==
    IF reliability \in DOMAIN a1
    THEN [found |-> TRUE, factor |-> a1[reliability]]
    ELSE [found |-> FALSE, factor |-> Zero]

pc_bearing_life(load, speed, dynamic_capacity, reliability, application) ==
    Let(IF application = "ball" THEN "3.0" ELSE "10/3", LAMBDA p :
    IF load = Zero THEN ZeroDivisionError
    ELSE
    Let([coef |-> Num(1), base |-> Div(dynamic_capacity, load), p |-> p], LAMBDA l10 :
    Let(a1_subscript(reliability), LAMBDA a1_reliability :
    IF ~a1_reliability.found THEN Raise("KeyError", <<"reliability">>)
    ELSE
    Let([l10 EXCEPT !.coef = Mul(Mul(Mul(a1_reliability.factor, a2), a3), @)], LAMBDA lna :
    IF Mul(Num(60), speed) = Zero THEN ZeroDivisionError
    ELSE
    Return([basic_rating_life |-> l10,
            modified_rating_life |-> lna,
            life_hours |-> [lna EXCEPT !.coef = Mul(Div(Dec(1, 6), Mul(Num(60), speed)), @)],
            dynamic_equivalent_load |-> load,
            reliability_factor |-> a1_reliability.factor])))))

-----------------------------------------------------------------------------
(* materials (termux).                                                     *)

InitialMaterialsDb ==
    [STEEL_1045 |->
         [name |-> "Steel AISI 1045",
          density |-> Num(7850),
          elastic_modulus |-> Num(205),
          poisson_ratio |-> Dec(29, -2),
          yield_strength |-> Num(505),
          ultimate_strength |-> Num(585),
          thermal_conductivity |-> Dec(498, -1),
          thermal_expansion |-> Dec(115, -7)],
     AL_6061 |->
         [name |-> "Aluminum 6061-T6",
          density |-> Num(2700),
          elastic_modulus |-> Dec(689, -1),
          poisson_ratio |-> Dec(33, -2),
          yield_strength |-> Num(276),
          ultimate_strength |-> Num(310),
          thermal_conductivity |-> Num(167),
          thermal_expansion |-> Dec(236, -7)],
     BRASS_360 |->
         [name |-> "Brass C360",
          density |-> Num(8500),
          elastic_modulus |-> Num(97),
          poisson_ratio |-> Dec(34, -2),
          yield_strength |-> Num(310),
          ultimate_strength |-> Num(379),
          thermal_conductivity |-> Num(115),
          thermal_expansion |-> Dec(203, -7)]]

EmptyDict == <<>>
IsEmptyDict(m) == DOMAIN m = {}

(* A variant of the lookup that inserts the default, as dict.setdefault    *)
(* would.                                                                  *)
dict_get_table_SetDefault(db, material_code) ==
    IF material_code \in DOMAIN db THEN db ELSE db @@ (material_code :> EmptyDict)

(* A variant of the lookup that takes the entry out of the table, as       *)
(* dict.pop would.                                                         *)
dict_get_table_Pop(db, material_code) ==
    [k \in DOMAIN db \ {material_code} |-> db[k]]

(* The table after MATERIALS_DB.get(material_code, {}): get inserts        *)
(* nothing.                                                                *)
dict_get_table(db, material_code) == db

get_material_properties(db, material_code) ==
    IF material_code \in DOMAIN db THEN db[material_code] ELSE EmptyDict

MaterialNotFound == Raise("ValueError", <<"Material", "not", "found", "in", "database">>)

calculate_stress_strain(db, force, area, material_code) ==
    Let(get_material_properties(db, material_code), LAMBDA properties :
    IF IsEmptyDict(properties) THEN MaterialNotFound
    ELSE IF area = Zero THEN ZeroDivisionError
    ELSE
    Let(Div(force, area), LAMBDA stress :
    IF stress = Zero THEN ZeroDivisionError
    ELSE Return([stress |-> stress,
                 strain |-> Div(stress, Mul(properties.elastic_modulus, Dec(1, 9))),
                 safety_factor |-> Div(Mul(properties.yield_strength, Dec(1, 6)), stress)])))

thermal_expansion(db, material_code, initial_length, temperature_change) ==
    Let(get_material_properties(db, material_code), LAMBDA properties :
    IF IsEmptyDict(properties) THEN MaterialNotFound
    ELSE
    Let(Mul(Mul(initial_length, properties.thermal_expansion), temperature_change),
        LAMBDA delta_l :
    IF initial_length = Zero THEN ZeroDivisionError
    ELSE Return([length_change |-> delta_l,
                 final_length |-> Add(initial_length, delta_l),
                 strain |-> Div(delta_l, initial_length)])))

heat_conduction(db, material_code, area, thickness, temperature_difference) ==
    Let(get_material_properties(db, material_code), LAMBDA properties :
    IF IsEmptyDict(properties) THEN MaterialNotFound
    ELSE IF thickness = Zero THEN ZeroDivisionError
    ELSE IF Mul(properties.thermal_conductivity, area) = Zero THEN ZeroDivisionError
    ELSE Return([heat_flux |->
                     Div(Mul(Mul(properties.thermal_conductivity, area),
                             temperature_difference), thickness),
                 thermal_resistance |->
                     Div(thickness, Mul(properties.thermal_conductivity, area))]))

material_costs ==
    [STEEL_1045 |-> Dec(25, -1), AL_6061 |-> Dec(48, -1), BRASS_360 |-> Dec(72, -1)]

material_cost_estimate(db, material_code, volume, processing_factor) ==
    Let(get_material_properties(db, material_code), LAMBDA properties :
    IF IsEmptyDict(properties) THEN MaterialNotFound
    ELSE
    Let(Mul(properties.density, volume), LAMBDA mass :
    Let(Mul(mass, IF material_code \in DOMAIN material_costs
                  THEN material_costs[material_code] ELSE Zero), LAMBDA base_cost :
    Return([mass |-> mass,
            material_cost |-> base_cost,
            total_cost |-> Mul(base_cost, processing_factor)]))))

-----------------------------------------------------------------------------
(* kinematics.gear_train_analysis (pc).  gear_teeth is a list of ints;     *)
(* Python index i is position i + 1 of the sequence.                       *)

(* for i in range(0, len(gear_teeth)-1, step): ratio *= teeth[i+1]/teeth[i] *)
RECURSIVE ratio_loop(_, _, _, _)
ratio_loop(gear_teeth, step, i, ratio) ==
    IF i >= Len(gear_teeth) - 1 THEN [raised |-> FALSE, ratio |-> ratio]
    ELSE IF gear_teeth[i + 1] = 0 THEN [raised |-> TRUE, ratio |-> ratio]
    ELSE ratio_loop(gear_teeth, step, i + step,
                    Mul(ratio, Frac(gear_teeth[i + 2], gear_teeth[i + 1])))

(* A variant of the loop that steps by one, pairing every adjacent gear.   *)
overall_ratio_EveryPair(gear_teeth) == ratio_loop(gear_teeth, 1, 0, Num(1))

(* A variant of the loop that closes the train: the last gear also drives  *)
(* the first.                                                              *)
overall_ratio_Closed(gear_teeth) ==
    ratio_loop(Append(gear_teeth, gear_teeth[1]), 2, 0, Num(1))

overall_ratio(gear_teeth) == ratio_loop(gear_teeth, 2, 0, Num(1))

gear_train_analysis(gear_teeth, input_speed, efficiency) ==
    IF Len(gear_teeth) < 2
    THEN Raise("ValueError", <<"Need", "at", "least", "2", "gears", "in", "the", "train">>)
    ELSE
    Let(overall_ratio(gear_teeth), LAMBDA loop :
    IF loop.raised THEN ZeroDivisionError
    ELSE IF loop.ratio = Zero THEN ZeroDivisionError
    ELSE
    Return([gear_ratio |-> loop.ratio,
            output_speed |-> Div(input_speed, loop.ratio),
            pitch_velocities |->
                [i \in 1..Len(gear_teeth) |->
                    [pi_times |-> Div(Mul(Num(gear_teeth[i]), input_speed), Num(60))]],
            output_power |-> Mul(Num(1), Pow(efficiency, Len(gear_teeth) - 1)),
            efficiency |-> Pow(efficiency, Len(gear_teeth) - 1)]))

-----------------------------------------------------------------------------
(* kinematics.solve_motion (pc).                                           *)

(* sign of -velocity + sqrt(radicand), for radicand >= 0 *)
MotionNumeratorSign(velocity, radicand) ==
    IF Sign(velocity) <= 0
    THEN (IF Sign(velocity) = 0 /\ Sign(radicand) = 0 THEN 0 ELSE 1)
    ELSE Sign(Sub(radicand, Mul(velocity, velocity)))

(* A variant of the displacement formula without the square of the time.   *)
motion_displacement_NoSquare(velocity, acceleration, time) ==
    Add(Mul(velocity, time), Mul(Mul(Dec(5, -1), acceleration), time))

motion_displacement(velocity, acceleration, time) ==
    Add(Mul(velocity, time), Mul(Mul(Dec(5, -1), acceleration), Pow(time, 2)))

(* A variant that tests the displacement branch before the time branch.    *)
solve_motion_DisplacementFirst(velocity, acceleration, time, displacement) ==
    IF velocity # None /\ displacement # None /\ acceleration # None
    THEN Let(Add(Pow(Val(velocity), 2),
                 Mul(Mul(Num(2), Val(acceleration)), Val(displacement))), LAMBDA radicand :
         Return([final_velocity |-> np_sqrt(radicand),
                 time |-> IF IsNaN(np_sqrt(radicand)) \/ Val(acceleration) = Zero THEN NaN
                          ELSE Term("(-v+sqrt(r))/a",
                                    <<Val(velocity), radicand, Val(acceleration)>>)]))
    ELSE IF velocity # None /\ acceleration # None /\ time # None
    THEN Return([displacement |->
                     motion_displacement(Val(velocity), Val(acceleration), Val(time)),
                 final_velocity |->
                     Add(Val(velocity), Mul(Val(acceleration), Val(time)))])
    ELSE Return(EmptyDict)

solve_motion(velocity, acceleration, time, displacement) ==
    IF velocity # None /\ acceleration # None /\ time # None
    THEN Return([displacement |->
                     motion_displacement(Val(velocity), Val(acceleration), Val(time)),
                 final_velocity |->
                     Add(Val(velocity), Mul(Val(acceleration), Val(time)))])
    ELSE IF velocity # None /\ displacement # None /\ acceleration # None
    THEN Let(Add(Pow(Val(velocity), 2),
                 Mul(Mul(Num(2), Val(acceleration)), Val(displacement))), LAMBDA radicand :
         Let(np_sqrt(radicand), LAMBDA root :
         Return([final_velocity |-> root,
                 time |->
                     IF IsNaN(root) THEN NaN
                     ELSE IF Val(acceleration) = Zero
                          THEN (IF MotionNumeratorSign(Val(velocity), radicand) = 0
                                THEN NaN
                                ELSE Inf(MotionNumeratorSign(Val(velocity), radicand)))
                          ELSE Term("(-v+sqrt(r))/a",
                                    <<Val(velocity), radicand, Val(acceleration)>>)])))
    ELSE Return(EmptyDict)

-----------------------------------------------------------------------------
(* stress_analysis.fatigue_analysis (pc).                                  *)

(* Python float ** float: 0.0 to a negative power raises                   *)
(* ZeroDivisionError, a negative base to a non-integer power gives a       *)
(* complex number, anything else a float.                                  *)
float_pow(base, exponent) ==
    IF base = Zero /\ Sign(exponent) < 0 THEN [fp |-> "raise", fn |-> "pow", args |-> <<>>]
    ELSE IF Sign(base) < 0 /\ exponent.d # 1
    THEN [fp |-> "complex", fn |-> "pow", args |-> <<base, exponent>>]
    ELSE Term("pow", <<base, exponent>>)

(* A variant of the test that also counts a safety factor of exactly 1.    *)
infinite_life_AtLeastOne(safety_factor) == Le(Num(1), safety_factor)

(* safety_factor > 1 *)
infinite_life(safety_factor) == Lt(Num(1), safety_factor)

basquin_b == Dec(-85, -3)

fatigue_analysis(stress_max, stress_min, ultimate_strength, endurance_limit, surface_factor, size_factor, reliability_factor) ==
    Let(Div(Sub(stress_max, stress_min), Num(2)), LAMBDA stress_amp :
    Let(Div(Add(stress_max, stress_min), Num(2)), LAMBDA stress_mean :
    Let(Mul(Mul(Mul(endurance_limit, surface_factor), size_factor), reliability_factor),
        LAMBDA Se :
    IF Se = Zero \/ ultimate_strength = Zero THEN ZeroDivisionError
    ELSE
    Let(Add(Div(stress_amp, Se), Div(stress_mean, ultimate_strength)), LAMBDA goodman :
    IF goodman = Zero THEN ZeroDivisionError
    ELSE
    Let(Div(Num(1), goodman), LAMBDA safety_factor :
    Let(IF infinite_life(safety_factor) THEN Dec(1, 6)
        ELSE float_pow(Div(stress_amp, Se), Div(Num(1), basquin_b)), LAMBDA cycles :
    IF "fp" \in DOMAIN cycles /\ cycles.fp = "raise" THEN ZeroDivisionError
    ELSE Return([safety_factor |-> safety_factor,
                 modified_endurance_limit |-> Se,
                 stress_amplitude |-> stress_amp,
                 mean_stress |-> stress_mean,
                 cycles_to_failure |-> cycles])))))))

-----------------------------------------------------------------------------
(* fluid_mechanics.bernoulli_equation (pc).                                *)

(* A variant of the upstream head with the velocity not squared.           *)
bernoulli_term1_NoSquare(pressure1, height1, velocity1, fluid_density, g) ==
    Add(Add(Div(pressure1, Mul(fluid_density, g)), height1),
        Div(velocity1, Mul(Num(2), g)))

(* term1 = pressure1/(fluid_density*g) + height1 + velocity1**2/(2*g) *)
bernoulli_term1(pressure1, height1, velocity1, fluid_density, g) ==
    Add(Add(Div(pressure1, Mul(fluid_density, g)), height1),
        Div(Pow(velocity1, 2), Mul(Num(2), g)))

bernoulli_equation(height1, velocity1, pressure1, height2, velocity2, pressure2, fluid_density) ==
    Let(Gravity, LAMBDA g :
    IF velocity2 = None /\ pressure2 = None
    THEN IF Mul(fluid_density, g) = Zero THEN ZeroDivisionError
         ELSE Let(bernoulli_term1(pressure1, height1, velocity1, fluid_density, g),
                  LAMBDA term1 :
              Return([velocity2 |-> np_sqrt(Mul(Mul(Num(2), g), Sub(term1, height2))),
                      pressure2 |-> pressure1,
                      height2 |-> height2]))
    ELSE IF velocity2 = None
    THEN IF Mul(fluid_density, g) = Zero THEN ZeroDivisionError
         ELSE Let(bernoulli_term1(pressure1, height1, velocity1, fluid_density, g),
                  LAMBDA term1 :
              Let(Add(Div(Val(pressure2), Mul(fluid_density, g)), height2), LAMBDA term2 :
              Return([velocity2 |-> np_sqrt(Mul(Mul(Num(2), g), Sub(term1, term2))),
                      pressure2 |-> Val(pressure2),
                      height2 |-> height2])))
    ELSE IF pressure2 = None
    THEN IF Mul(fluid_density, g) = Zero THEN ZeroDivisionError
         ELSE Let(bernoulli_term1(pressure1, height1, velocity1, fluid_density, g),
                  LAMBDA term1 :
              Return([velocity2 |-> Val(velocity2),
                      pressure2 |->
                          Mul(Mul(fluid_density, g),
                              Sub(Sub(term1, height2),
                                  Div(Pow(Val(velocity2), 2), Mul(Num(2), g)))),
                      height2 |-> height2]))
    ELSE Return([velocity2 |-> Val(velocity2),
                 pressure2 |-> Val(pressure2),
                 height2 |-> height2]))

-----------------------------------------------------------------------------
(* machine_design.shaft_design (pc).  A diameter d is carried as the       *)
(* rational d^3 * pi, the argument of math.pow(..., 1/3) without its 1/pi. *)

(* the integer square root, by bisection below the largest root of a       *)
(* 32-bit integer                                                          *)
RECURSIVE ISqrtBetween(_, _, _)
ISqrtBetween(n, lo, hi) ==
    IF lo >= hi THEN lo
    ELSE LET mid == (lo + hi + 1) \div 2
         IN  IF mid <= n \div mid THEN ISqrtBetween(n, mid, hi)
             ELSE ISqrtBetween(n, lo, mid - 1)

ISqrt[n \in Nat] == ISqrtBetween(n, 0, IF n < 46340 THEN n ELSE 46340)
IsSquare(x) == x.e % 2 = 0 /\ x.n >= 0 /\ ISqrt[x.n] * ISqrt[x.n] = x.n
                 /\ ISqrt[x.d] * ISqrt[x.d] = x.d

(* math.sqrt of a non-negative number; exact where the root is rational.   *)
math_sqrt(x) ==
    IF IsSquare(x)
    THEN IF x.e >= 0 THEN Norm(ISqrt[x.n] * Pow10[x.e \div 2], ISqrt[x.d], 0)
         ELSE Norm(ISqrt[x.n], ISqrt[x.d], -((-x.e) \div 2))
    ELSE Term("sqrt", <<x>>)

(* Bounds of math.pi in hundredths, used to order a table size against a  *)
(* diameter: 3.14 < pi < 3.15.                                             *)
PiLowerCenti == 314
PiUpperCenti == 315

(* L * 10^-2 >= x * 10^9 for an integer L and a number x, compared         *)
(* without aligning the decimal exponents                                  *)
CentiAtLeastGiga(L, x) ==
    LET k == x.e + 11
    IN  IF x.n <= 0 THEN L * x.d >= x.n
        ELSE IF k >= 10 THEN FALSE
        ELSE IF k >= 0 THEN (L * x.d) \div Pow10[k] >= x.n
        ELSE IF k <= -10 THEN L > 0
        ELSE L * x.d >= (x.n \div Pow10[-k]) + (IF x.n % Pow10[-k] = 0 THEN 0 ELSE 1)

shaft_std_sizes == {10, 12, 15, 17, 20, 25, 30, 35, 40, 45, 50, 55, 60, 70, 80, 90, 100}

(* size >= diameter * 1000, i.e. size^3 * pi >= 10^9 * (d^3 * pi) *)
SizeCoversDiameter(size, diameter) ==
    CentiAtLeastGiga(size * size * size * PiLowerCenti, diameter.cube_times_pi)

EmptyMin == Raise("ValueError", <<"min()", "arg", "is", "an", "empty", "sequence">>)

(* A variant of the selection that takes the largest size below the        *)
(* diameter.                                                               *)
standard_shaft_size_RoundDown(diameter) ==
    Let({size \in shaft_std_sizes : ~SizeCoversDiameter(size, diameter)}, LAMBDA sizes :
    IF sizes = {} THEN [found |-> FALSE, size |-> 0]
    ELSE [found |-> TRUE, size |-> CHOOSE s \in sizes : \A u \in sizes : u <= s])

(* A variant of the selection that settles for the largest size when none  *)
(* covers the diameter.                                                    *)
standard_shaft_size_Capped(diameter) ==
    Let({size \in shaft_std_sizes : SizeCoversDiameter(size, diameter)}, LAMBDA sizes :
    IF sizes = {} THEN [found |-> TRUE, size |-> 100]
    ELSE [found |-> TRUE, size |-> CHOOSE s \in sizes : \A u \in sizes : s <= u])

(* min(size for size in std_sizes if size >= diameter_mm) *)
standard_shaft_size(diameter) ==
    Let({size \in shaft_std_sizes : SizeCoversDiameter(size, diameter)}, LAMBDA sizes :
    IF sizes = {} THEN [found |-> FALSE, size |-> 0]
    ELSE [found |-> TRUE, size |-> CHOOSE s \in sizes : \A u \in sizes : s <= u])

shaft_design(torque, bending_moment, material_yield_strength, fatigue_strength, safety_factor, stress_concentration_factor) ==
    Let(Mul(material_yield_strength, Dec(1, 6)), LAMBDA Sy :
    Let(Mul(IF fatigue_strength = None THEN Mul(Dec(5, -1), material_yield_strength)
            ELSE Val(fatigue_strength), Dec(1, 6)), LAMBDA Sf :
    Let(math_sqrt(Add(Pow(Mul(stress_concentration_factor, bending_moment), 2),
                      Mul(Dec(75, -2), Pow(Mul(stress_concentration_factor, torque), 2)))),
        LAMBDA Me :
    IF Sy = Zero \/ Sf = Zero THEN ZeroDivisionError
    ELSE
    Let([cube_times_pi |-> Div(Mul(Mul(Num(16), safety_factor), Me), Sy)], LAMBDA d_static :
    Let([cube_times_pi |-> Div(Mul(Mul(Num(16), safety_factor), Me), Sf)], LAMBDA d_fatigue :
    Let(IF Lt(d_static.cube_times_pi, d_fatigue.cube_times_pi) THEN d_fatigue ELSE d_static,
        LAMBDA diameter :
    Let(standard_shaft_size(diameter), LAMBDA standard :
    IF ~standard.found THEN EmptyMin
    ELSE
    Let(Div(Num(standard.size), Num(1000)), LAMBDA actual_diameter :
    (* actual_stress = 32 Me / (pi d^3) is zero exactly when Me is *)
    IF Me = Zero THEN ZeroDivisionError
    ELSE
    Return([required_diameter |-> diameter,
            actual_diameter |-> actual_diameter,
            equivalent_moment |-> Me,
            maximum_stress |-> Term("32*Me/(pi*d**3)/1e6", <<Me, actual_diameter>>),
            actual_safety_factor |->
                Term("min(Sy,Sf)*pi*d**3/(32*Me)",
                     <<IF Lt(Sf, Sy) THEN Sf ELSE Sy, Me, actual_diameter>>)])))))))))

-----------------------------------------------------------------------------
(* machine_design.gear_design and belt_design (pc): selection of the       *)
(* nearest standard size.                                                  *)

(* The order of a/b and c/d (-1, 0, 1) for a, c >= 0 and b, d > 0, by      *)
(* their continued fractions, so that no product is formed.                *)
FracCmp[a \in Nat, b \in Nat, c \in Nat, d \in Nat] ==
    IF a \div b # c \div d THEN (IF a \div b < c \div d THEN -1 ELSE 1)
    ELSE IF a % b = 0 THEN (IF c % d = 0 THEN 0 ELSE -1)
    ELSE IF c % d = 0 THEN 1
    ELSE FracCmp[d, c % d, b, a % b]

(* A non-negative number as a pair <<numerator, denominator>> of naturals. *)
AsFraction(x) ==
    IF x.e >= 0 THEN <<x.n * Pow10[x.e], x.d>>
    ELSE <<x.n \div Gcd[x.n, Pow10[-x.e]], x.d * (Pow10[-x.e] \div Gcd[x.n, Pow10[-x.e]])>>

(* x <= c/d *)
RatLe(x, c, d) ==
    Sign(x) <= 0 \/ FracCmp[AsFraction(x)[1], AsFraction(x)[2], c, d] <= 0

(* Bounds of math.pi squared in hundredths: 9.86 < pi^2 < 9.87. *)
Pi2LowerCenti == 986
Pi2UpperCenti == 987

(* value <= mid where value^3 * pi^2 = cube_times_pi2 *)
CubeRootAtMost(value, mid) ==
    Let(AsFraction(mid), LAMBDA f :
    RatLe(value.cube_times_pi2, f[1] * f[1] * f[1] * Pi2LowerCenti,
          f[2] * f[2] * f[2] * 100))

(* value <= mid where value^2 = square *)
SquareRootAtMost(value, mid) ==
    Let(AsFraction(Mul(mid, mid)), LAMBDA f : RatLe(value.square, f[1], f[2]))

AtMost(value, mid) ==
    IF "square" \in DOMAIN value THEN SquareRootAtMost(value, mid)
    ELSE CubeRootAtMost(value, mid)

(* A variant of the selection that rounds up to the first size that is at  *)
(* least the value.                                                        *)
nearest_standard_RoundUp(std_sizes, value) ==
    Let({i \in 1..Len(std_sizes) : AtMost(value, std_sizes[i])}, LAMBDA at_least :
    IF at_least = {} THEN std_sizes[Len(std_sizes)]
    ELSE std_sizes[CHOOSE i \in at_least : \A j \in at_least : i <= j])

(* min(std_sizes, key=lambda x: abs(x - value)) on an ascending list: the  *)
(* first entry whose midpoint to the next entry is not below the value     *)
(* (min keeps the first of equal keys), else the last entry.               *)
nearest_standard(std_sizes, value) ==
    Let({i \in 1..(Len(std_sizes) - 1) :
            AtMost(value, Div(Add(std_sizes[i], std_sizes[i + 1]), Num(2)))},
        LAMBDA nearer :
    IF nearer = {} THEN std_sizes[Len(std_sizes)]
    ELSE std_sizes[CHOOSE i \in nearer : \A j \in nearer : i <= j])

std_modules ==
    <<Num(1), Dec(125, -2), Dec(15, -1), Num(2), Dec(25, -1), Num(3), Num(4), Num(5), Num(6),
      Num(8), Num(10), Num(12), Num(16), Num(20), Num(25), Num(32), Num(40), Num(50)>>

lewis_y == Sub(Dec(484, -3), Div(Dec(287, -2), Num(20)))

(* int(x) for x >= 0 *)
int(x) == AsFraction(x)[1] \div AsFraction(x)[2]

gear_design(power, speed, gear_ratio, pressure_angle, quality_grade, material_strength) ==
    Let(Mul(power, Num(1000)), LAMBDA power_watts :
    IF speed = Zero THEN ZeroDivisionError
    ELSE
    (* torque = torque_times_pi / pi *)
    Let(Div(Mul(power_watts, Num(60)), Mul(Num(2), speed)), LAMBDA torque_times_pi :
    Let(lewis_y, LAMBDA y :
    IF Mul(material_strength, y) = Zero THEN ZeroDivisionError
    ELSE
    Let([cube_times_pi2 |->
             Div(Mul(Mul(Num(2), torque_times_pi), Num(quality_grade)),
                 Mul(material_strength, y))], LAMBDA computed :
    IF Sign(computed.cube_times_pi2) < 0
    THEN Raise("ValueError", <<"math", "domain", "error">>)
    ELSE
    Let(nearest_standard(std_modules, computed), LAMBDA module :
    Let(int(Mul(Num(20), gear_ratio)), LAMBDA z2 :
    Let(Mul(module, Num(20)), LAMBDA d1 :
    IF Add(gear_ratio, Num(1)) = Zero THEN ZeroDivisionError
    ELSE
    Return([module |-> module,
            pinion_teeth |-> 20,
            gear_teeth |-> z2,
            pinion_diameter |-> d1,
            gear_diameter |-> Mul(module, Num(z2)),
            center_distance |-> Div(Add(d1, Mul(module, Num(z2))), Num(2)),
            face_width |-> Mul(Num(10), module),
            pitch_line_velocity |-> [pi_times |-> Div(Mul(d1, speed), Num(60000))],
            tangential_force |-> Term("2000*power/v", <<power, d1, speed>>),
            beam_strength |-> Mul(Mul(Mul(material_strength, module), Num(10)), y),
            wear_strength |->
                Div(Mul(Mul(Mul(Mul(Num(10), module),
                                Div(Mul(Num(2), gear_ratio), Add(gear_ratio, Num(1)))),
                            material_strength), d1), Num(2000)),
            power_rating |-> Term("min(Sb,Sw)*v/1000",
                                  <<module, gear_ratio, material_strength, speed>>)]))))))))

(* math.ceil(x) for x >= 0 *)
math_ceil(x) == (AsFraction(x)[1] + AsFraction(x)[2] - 1) \div AsFraction(x)[2]

belt_std_sizes ==
    <<Num(63), Num(71), Num(80), Num(90), Num(100), Num(112), Num(125), Num(140), Num(160),
      Num(180), Num(200), Num(224), Num(250), Num(280), Num(315)>>

belt_design(power, speed_driver, speed_driven, center_distance, belt_type) ==
    IF speed_driven = Zero THEN ZeroDivisionError
    ELSE
    Let(Div(speed_driver, speed_driven), LAMBDA ratio :
    Let(Mul(power, Dec(12, -1)), LAMBDA design_power :
    IF speed_driver = Zero THEN ZeroDivisionError
    ELSE IF Sign(Div(Mul(power, Num(1000)), speed_driver)) < 0
    THEN Raise("ValueError", <<"math", "domain", "error">>)
    ELSE
    (* the estimated diameters in mm, by their squares *)
    Let([square |-> Mul(Num(900), Div(Mul(power, Num(1000)), speed_driver))],
        LAMBDA d1_mm :
    Let([square |-> Mul(d1_mm.square, Mul(ratio, ratio))], LAMBDA d2_mm :
    Let(Div(nearest_standard(belt_std_sizes, d1_mm), Num(1000)), LAMBDA d1 :
    Let(Div(nearest_standard(belt_std_sizes, d2_mm), Num(1000)), LAMBDA d2 :
    IF center_distance = Zero THEN ZeroDivisionError
    ELSE
    Let(Div(Sub(d2, d1), Mul(Num(2), center_distance)), LAMBDA sine :
    IF Lt(Num(1), sine) \/ Lt(sine, Num(-1))
    THEN Raise("ValueError", <<"math", "domain", "error">>)
    ELSE IF power = Zero THEN ZeroDivisionError
    ELSE
    Return([driver_diameter |-> d1,
            driven_diameter |-> d2,
            belt_length |-> Term("2*C+pi*(d1+d2)/2+(d2-d1)**2/(4*C)",
                                 <<center_distance, d1, d2>>),
            belt_speed |-> [pi_times |-> Div(Mul(d1, speed_driver), Num(60))],
            wrap_angle_driver |-> Term("180-2*asin(x)*180/pi", <<sine>>),
            wrap_angle_driven |-> Term("180+2*asin(x)*180/pi", <<sine>>),
            tight_side_tension |-> Term("power*1000/v", <<power, d1, speed_driver>>),
            slack_side_tension |-> Term("t1/tension_ratio",
                                        <<power, d1, speed_driver, sine, belt_type>>),
            power_per_belt |-> power,
            number_of_belts_required |->
                math_ceil(Div(design_power, Div(Mul(power, Num(1000)), Num(1000))))]))))))))

-----------------------------------------------------------------------------
(* thermodynamics.carnot_efficiency (pc).                                  *)

HotNotGreater ==
    Raise("ValueError", <<"Hot", "temperature", "must", "be", "greater", "than", "cold",
                          "temperature">>)

(* A variant of the check that lets equal temperatures through.            *)
carnot_efficiency_Strict(t_hot, t_cold) ==
    IF Lt(t_hot, t_cold) THEN HotNotGreater
    ELSE IF t_hot = Zero THEN ZeroDivisionError
    ELSE Return([efficiency |-> Sub(Num(1), Div(t_cold, t_hot)),
                 efficiency_percent |-> Mul(Sub(Num(1), Div(t_cold, t_hot)), Num(100))])

carnot_efficiency(t_hot, t_cold) ==
    IF Le(t_hot, t_cold) THEN HotNotGreater
    ELSE IF t_hot = Zero THEN ZeroDivisionError
    ELSE Let(Sub(Num(1), Div(t_cold, t_hot)), LAMBDA efficiency :
         Return([efficiency |-> efficiency,
                 efficiency_percent |-> Mul(efficiency, Num(100))]))

-----------------------------------------------------------------------------
(* kinematics.projectile_motion (pc).  The values are IEEE doubles: the   *)
(* arithmetic below is exact except where a double cannot follow it, which *)
(* is where a sum leaves the larger operand unchanged (the smaller one is  *)
(* under half a unit in its last place) and where a product exceeds the    *)
(* largest double.                                                         *)

IsNumber(x) == "n" \in DOMAIN x

Digits[n \in Nat] == IF n < 10 THEN 1 ELSE 1 + Digits[n \div 10]

(* |x| < 10^UpperOrder(x) and |x| >= 10^LowerOrder(x) for a number x # 0 *)
UpperOrder(x) == Digits[Abs(x.n)] - Digits[x.d] + 1 + x.e
LowerOrder(x) == Digits[Abs(x.n)] - Digits[x.d] - 1 + x.e

(* a double carries 53 bits, under 17 decimal digits: b vanishes in a + b  *)
SignificantDigits == 17
Absorbs(a, b) ==
    a # Zero /\ b # Zero /\ UpperOrder(b) + SignificantDigits <= LowerOrder(a)

(* the largest double is below 10^309 *)
MaxDecimalExponent == 309

(* a finite value carried symbolically: a root that is not rational, or a  *)
(* product or sum with one                                                 *)
IsSymbolic(x) == ~IsNumber(x) /\ x.fp = "finite"
IsNaNValue(x) == ~IsNumber(x) /\ x.fp = "nan"
IsInfinite(x) == ~IsNumber(x) /\ x.fp \in {"inf", "-inf"}

(* the sign of a number, an infinity or a root *)
float_sign(x) ==
    IF IsNumber(x) THEN Sign(x)
    ELSE IF x.fp = "inf" \/ (x.fp = "finite" /\ x.fn = "sqrt") THEN 1
    ELSE IF x.fp = "-inf" THEN -1
    ELSE Sign(x)

float_neg(x) ==
    IF IsNumber(x) THEN Neg(x)
    ELSE IF IsNaNValue(x) THEN NaN
    ELSE IF IsInfinite(x) THEN Inf(-float_sign(x))
    ELSE Term("neg", <<x>>)

float_mul(a, b) ==
    IF IsNumber(a) /\ IsNumber(b)
    THEN IF a # Zero /\ b # Zero /\ LowerOrder(a) + LowerOrder(b) >= MaxDecimalExponent
         THEN Inf(Sign(a) * Sign(b)) ELSE Mul(a, b)
    ELSE IF IsNaNValue(a) \/ IsNaNValue(b) THEN NaN
    ELSE IF IsInfinite(a) \/ IsInfinite(b)
    THEN IF a = Zero \/ b = Zero THEN NaN ELSE Inf(float_sign(a) * float_sign(b))
    ELSE IF a = Zero \/ b = Zero THEN Zero
    ELSE Term("mul", <<a, b>>)

float_add(a, b) ==
    IF IsNumber(a) /\ IsNumber(b)
    THEN IF Absorbs(a, b) THEN a ELSE IF Absorbs(b, a) THEN b ELSE Add(a, b)
    ELSE IF IsNaNValue(a) \/ IsNaNValue(b) THEN NaN
    ELSE IF IsInfinite(a) /\ IsInfinite(b) THEN (IF a.fp = b.fp THEN a ELSE NaN)
    ELSE IF IsInfinite(a) THEN a
    ELSE IF IsInfinite(b) THEN b
    ELSE IF a = Zero THEN b
    ELSE IF b = Zero THEN a
    ELSE Term("add", <<a, b>>)

(* a > b, false whenever either side is nan *)
float_gt(a, b) ==
    IF IsNumber(a) /\ IsNumber(b) THEN Lt(b, a)
    ELSE IF IsNaNValue(a) \/ IsNaNValue(b) THEN FALSE
    ELSE IF IsInfinite(a) /\ IsInfinite(b) THEN a.fp = "inf" /\ b.fp = "-inf"
    ELSE IF IsInfinite(a) THEN a.fp = "inf"
    ELSE IF IsInfinite(b) THEN b.fp = "-inf"
    ELSE float_sign(float_add(a, float_neg(b))) > 0

(* x >= 0, false for nan *)
float_ge_zero(x) == ~IsNaNValue(x) /\ float_sign(x) >= 0

(* np.sqrt of a float: nan below zero, inf at inf, the exact root where    *)
(* it is rational, else a symbolic finite value.                           *)
np_sqrt_value(x) ==
    IF IsNumber(x) THEN (IF Sign(x) < 0 THEN NaN ELSE math_sqrt(x))
    ELSE IF IsSymbolic(x) THEN Term("sqrt", <<x>>)
    ELSE IF x.fp = "inf" THEN x ELSE NaN

Last(seq) == seq[Len(seq)]

(* the builtin max: an element replaces the running maximum only when it   *)
(* compares greater                                                        *)
RECURSIVE MaxOf(_)
MaxOf(seq) ==
    IF Len(seq) = 1 THEN seq[1]
    ELSE Let(MaxOf(SubSeq(seq, 1, Len(seq) - 1)), LAMBDA m :
         IF float_gt(Last(seq), m) THEN Last(seq) ELSE m)

(* A value a + b * sqrt(r) with a, b, r rational and sqrt(r) not rational,  *)
(* kept exactly.                                                           *)
Surd(a, b, r) == IF b = Zero THEN a ELSE Term("surd", <<a, b, r>>)
IsSurd(x) == ~IsNumber(x) /\ x.fp = "finite" /\ x.fn = "surd"

(* the square root of a number that is not negative *)
SurdRoot(r) == IF IsSquare(r) THEN math_sqrt(r) ELSE Surd(Zero, Num(1), r)

SurdAdd(x, a) ==
    IF IsNumber(x) THEN Add(x, a) ELSE Surd(Add(x.args[1], a), x.args[2], x.args[3])

SurdScale(x, k) ==
    IF IsNumber(x) THEN Mul(x, k)
    ELSE IF k = Zero THEN Zero
    ELSE Surd(Mul(x.args[1], k), Mul(x.args[2], k), x.args[3])

SurdSign(x) ==
    IF IsNumber(x) THEN Sign(x)
    ELSE LET sa == Sign(x.args[1])
             sb == Sign(x.args[2])
         IN  IF sa * sb >= 0 THEN sb
             ELSE IF Lt(Mul(x.args[1], x.args[1]),
                        Mul(Mul(x.args[2], x.args[2]), x.args[3]))
             THEN sb ELSE sa

(* without air resistance: the closed form and the sampled trajectory *)
projectile_closed_form(v0x, v0y, height, g) ==
    Let(SurdRoot(Add(Pow(v0y, 2), Mul(Mul(Num(2), g), height))), LAMBDA root :
    Let(SurdScale(SurdAdd(root, v0y), Div(Num(1), g)), LAMBDA time_flight :
    Return([max_height |-> Add(height, Div(Pow(v0y, 2), Mul(Num(2), g))),
            range |-> SurdScale(time_flight, v0x),
            time_of_flight |-> time_flight,
            trajectory_x |-> Term("v0x*linspace(0,time_flight,100)", <<v0x, time_flight>>),
            trajectory_y |-> Term("height+v0y*t-0.5*g*t**2",
                                  <<height, v0y, g, time_flight>>)])))

(* kinematics.projectile_motion (termux), with g = 9.81 *)
termux_projectile_motion(initial_velocity, angle, height) ==
    Let(Gravity, LAMBDA g :
    Let(Mul(initial_velocity, CosDeg(angle)), LAMBDA v0x :
    Let(Mul(initial_velocity, SinDeg(angle)), LAMBDA v0y :
    Let(IF height = Zero THEN Some(Div(Mul(Num(2), v0y), g))
        ELSE
        Let(Mul(Dec(-5, -1), g), LAMBDA a :
        Let(Sub(Mul(v0y, v0y), Mul(Mul(Num(4), a), height)), LAMBDA discriminant :
        IF Sign(discriminant) < 0 THEN None
        ELSE Some(SurdScale(SurdAdd(SurdRoot(discriminant), Neg(v0y)),
                            Div(Num(1), Mul(Num(2), a)))))),
        LAMBDA time_of_flight :
    IF time_of_flight = None THEN Raise("ValueError", <<"math", "domain", "error">>)
    ELSE Return([time_of_flight |-> Val(time_of_flight),
                 maximum_height |-> Add(height, Div(Mul(v0y, v0y), Mul(Num(2), g))),
                 range |-> SurdScale(Val(time_of_flight), v0x)])))))

dt == Dec(1, -2)

(* x, y = [0], [height]; vx, vy = [v0x], [v0y]; t = [0] *)
initial_frame(v0x, v0y, height) ==
    [x |-> <<Zero>>, y |-> <<height>>, vx |-> <<v0x>>, vy |-> <<v0y>>, t |-> <<Zero>>]

(* while y[-1] >= 0 *)
loop_continues(y) == float_ge_zero(Last(y))

(* v = np.sqrt(vx[-1]**2 + vy[-1]**2) *)
projectile_speed(vx, vy) == np_sqrt_value(float_add(float_mul(vx, vx), float_mul(vy, vy)))

(* -drag_coefficient * v * component *)
drag_force(drag_coefficient, v, component) ==
    float_mul(float_mul(float_neg(drag_coefficient), v), component)

(* fy = -drag_coefficient * v * vy[-1] - g *)
vertical_force(drag_coefficient, v, vy, g) ==
    float_add(drag_force(drag_coefficient, v, vy), float_neg(g))

(* one pass of the loop body; the positions advance by the velocities      *)
(* appended in the same pass                                               *)
integration_step(f, g, drag_coefficient) ==
    Let(projectile_speed(Last(f.vx), Last(f.vy)), LAMBDA v :
    Let(drag_force(drag_coefficient, v, Last(f.vx)), LAMBDA fx :
    Let(vertical_force(drag_coefficient, v, Last(f.vy), g), LAMBDA fy :
    Let(float_add(Last(f.vx), float_mul(fx, dt)), LAMBDA new_vx :
    Let(float_add(Last(f.vy), float_mul(fy, dt)), LAMBDA new_vy :
    [x |-> Append(f.x, float_add(Last(f.x), float_mul(new_vx, dt))),
     y |-> Append(f.y, float_add(Last(f.y), float_mul(new_vy, dt))),
     vx |-> Append(f.vx, new_vx),
     vy |-> Append(f.vy, new_vy),
     t |-> Append(f.t, float_add(Last(f.t), dt))])))))

integration_result(f) ==
    Return([max_height |-> MaxOf(f.y),
            range |-> Last(f.x),
            time_of_flight |-> Last(f.t),
            trajectory_x |-> f.x,
            trajectory_y |-> f.y])

-----------------------------------------------------------------------------
(* machine_design.power_screw_design (pc), for loads, diameters, pitches   *)
(* and friction coefficients that are not negative.  math.pi and           *)
(* math.cos(alpha/2), alpha = 29 degrees, enter through bounds:            *)
(* 3.14 < pi < 3.15 and 0.9681 < cos(14.5 deg) < 0.9682.                   *)
CosHalfThreadLower == Dec(9681, -4)
CosHalfThreadUpper == Dec(9682, -4)

Undetermined == CHOOSE b \in {} : TRUE

(* self_locking = f_prime > math.tan(lead_angle), which for a positive     *)
(* diameter is  coefficient_friction * pi * mean_diameter >                *)
(* pitch * cos(alpha/2)                                                    *)
power_screw_self_locking(coefficient_friction, pitch, mean_diameter) ==
    IF Lt(Mul(pitch, CosHalfThreadUpper),
          Mul(Mul(coefficient_friction, Dec(PiLowerCenti, -2)), mean_diameter))
    THEN TRUE
    ELSE IF Le(Mul(Mul(coefficient_friction, Dec(PiUpperCenti, -2)), mean_diameter),
               Mul(pitch, CosHalfThreadLower))
    THEN FALSE
    ELSE Undetermined

(* 1 - f_prime * tan(lead_angle) is zero where                             *)
(* coefficient_friction * pitch = cos(alpha/2) * pi * mean_diameter        *)
power_screw_denominator_sign(coefficient_friction, pitch, mean_diameter) ==
    IF Lt(Mul(coefficient_friction, pitch),
          Mul(Mul(CosHalfThreadLower, Dec(PiLowerCenti, -2)), mean_diameter))
    THEN 1
    ELSE IF Lt(Mul(Mul(CosHalfThreadUpper, Dec(PiUpperCenti, -2)), mean_diameter),
               Mul(coefficient_friction, pitch))
    THEN -1
    ELSE Undetermined

(* A variant that gives the raising torque back for a self-locking screw.  *)
lowering_torque_Swapped(torque_total, self_locking) ==
    IF self_locking THEN torque_total ELSE Zero

(* torque_total if not self_locking else 0 *)
lowering_torque(torque_total, self_locking) ==
    IF ~self_locking THEN torque_total ELSE Zero

power_screw_design(axial_load, mean_diameter, pitch, coefficient_friction, collar_friction, collar_mean_diameter) ==
    Let(IF collar_mean_diameter = None THEN Mul(Dec(15, -1), mean_diameter)
        ELSE Val(collar_mean_diameter), LAMBDA collar_diameter :
    IF mean_diameter = Zero THEN ZeroDivisionError
    ELSE
    Let(IF axial_load = Zero \/ (pitch = Zero /\ coefficient_friction = Zero) THEN Zero
        ELSE Term("(W*dm/2)*(tan(lead)+f')/(1-f'*tan(lead))",
                  <<axial_load, mean_diameter, pitch, coefficient_friction,
                    power_screw_denominator_sign(coefficient_friction, pitch,
                                                 mean_diameter)>>),
        LAMBDA torque_screw :
    Let(Div(Mul(Mul(axial_load, collar_friction), collar_diameter), Num(2)),
        LAMBDA torque_collar :
    Let(float_add(torque_screw, torque_collar), LAMBDA torque_total :
    IF torque_total = Zero THEN ZeroDivisionError
    ELSE
    Let(power_screw_self_locking(coefficient_friction, pitch, mean_diameter),
        LAMBDA self_locking :
    Return([raising_torque |-> torque_total,
            lowering_torque |-> lowering_torque(torque_total, self_locking),
            efficiency |-> Term("100*W*p/(2*pi*T)", <<axial_load, pitch, torque_total>>),
            lead_angle_degrees |-> IF pitch = Zero THEN Zero
                                   ELSE Term("atan(p/(pi*dm))*180/pi",
                                             <<pitch, mean_diameter>>),
            self_locking |-> self_locking,
            screw_torque |-> torque_screw,
            collar_torque |-> torque_collar]))))))

-----------------------------------------------------------------------------
(* get_float_input (pc, termux and interactive: the same text).  A line    *)
(* the user types is a sequence of characters.                             *)

Digit == <<"0", "1", "2", "3", "4", "5", "6", "7", "8", "9">>
IsDigit(c) == \E k \in 1..10 : Digit[k] = c
DigitValue(c) == (CHOOSE k \in 1..10 : Digit[k] = c) - 1

RECURSIVE StripLeft(_)
StripLeft(text) ==
    IF text # <<>> /\ text[1] = " " THEN StripLeft(Tail(text)) ELSE text
RECURSIVE StripRight(_)
StripRight(text) ==
    IF text # <<>> /\ text[Len(text)] = " "
    THEN StripRight(SubSeq(text, 1, Len(text) - 1)) ELSE text

(* the digits of a decimal literal read as one integer *)
RECURSIVE DigitsValue(_)
DigitsValue(ds) ==
    IF ds = <<>> THEN 0
    ELSE 10 * DigitsValue(SubSeq(ds, 1, Len(ds) - 1)) + DigitValue(ds[Len(ds)])

WithoutPoint(body) == SelectSeq(body, LAMBDA c : c # ".")
PointCount(body) == Len(body) - Len(WithoutPoint(body))
DigitsAfterPoint(body) ==
    IF PointCount(body) = 0 THEN 0
    ELSE Len(body) - (CHOOSE i \in 1..Len(body) : body[i] = ".")

IsDecimal(body) ==
    /\ PointCount(body) <= 1
    /\ WithoutPoint(body) # <<>>
    /\ \A i \in 1..Len(WithoutPoint(body)) : IsDigit(WithoutPoint(body)[i])

(* float(text) for texts without exponent, underscore or upper case: the   *)
(* value, or None where float raises ValueError                            *)
float_parse(text) ==
    LET s == StripRight(StripLeft(text))
        signed == s # <<>> /\ s[1] \in {"+", "-"}
        sign == IF s # <<>> /\ s[1] = "-" THEN -1 ELSE 1
        body == IF signed THEN Tail(s) ELSE s
    IN  IF body = <<"n", "a", "n">> THEN Some(NaN)
        ELSE IF body \in {<<"i", "n", "f">>, <<"i", "n", "f", "i", "n", "i", "t", "y">>}
        THEN Some(Inf(sign))
        ELSE IF IsDecimal(body)
        THEN Some(Norm(sign * DigitsValue(WithoutPoint(body)), 1, -DigitsAfterPoint(body)))
        ELSE None

(* value < bound and value > bound as Python compares floats *)
float_lt(a, b) == float_gt(b, a)

(* min_val is not None and value < min_val *)
below_minimum(value, min_val) == min_val # None /\ float_lt(value, Val(min_val))

(* max_val is not None and value > max_val *)
above_maximum(value, max_val) == max_val # None /\ float_gt(value, Val(max_val))

(* one pass of the loop on the line read: the value returned, or None when *)
(* the loop goes round again                                               *)
get_float_input_pass(text, min_val, max_val) ==
    Let(float_parse(text), LAMBDA parsed :
    IF parsed = None THEN None
    ELSE IF below_minimum(Val(parsed), min_val) THEN None
    ELSE IF above_maximum(Val(parsed), max_val) THEN None
    ELSE parsed)

-----------------------------------------------------------------------------
(* fluid_mechanics.bernoulli_equation (termux) *)
termux_bernoulli_equation(height1, velocity1, pressure1, height2, velocity2, pressure2, density) ==
    Let(Gravity, LAMBDA g :
    IF velocity2 = None
    THEN IF pressure2 = None
         THEN Raise("TypeError", <<"unsupported", "operand", "NoneType", "float">>)
         ELSE
         Let(Add(Add(pressure1, Mul(Mul(density, g), height1)),
                 Mul(Mul(Dec(5, -1), density), Pow(velocity1, 2))), LAMBDA term1 :
         Let(Add(Val(pressure2), Mul(Mul(density, g), height2)), LAMBDA term2 :
         IF density = Zero THEN ZeroDivisionError
         ELSE
         Let(Div(Mul(Num(2), Sub(term1, term2)), density), LAMBDA radicand :
         IF Sign(radicand) < 0 THEN Raise("ValueError", <<"math", "domain", "error">>)
         ELSE Return([velocity2 |-> math_sqrt(radicand)]))))
    ELSE IF pressure2 = None
    THEN Return([pressure2 |->
                    Add(Add(pressure1, Mul(Mul(density, g), Sub(height1, height2))),
                        Mul(Mul(Dec(5, -1), density),
                            Sub(Pow(velocity1, 2), Pow(Val(velocity2), 2))))])
    ELSE Return(EmptyDict))

-----------------------------------------------------------------------------
(* machine_design.bearing_life (termux) *)
termux_reliability_factors ==
    <<(<<Dec(9, -1), Num(1)>>), (<<Dec(95, -2), Dec(62, -2)>>),
      (<<Dec(99, -2), Dec(21, -2)>>), (<<Dec(999, -3), Dec(2, -2)>>)>>

TermuxReliabilityKeys == {termux_reliability_factors[i][1] : i \in 1..4}

(* A variant of the lookup whose default is 0.0. *)
termux_reliability_factor_DefaultZero(reliability) ==
    IF reliability \in TermuxReliabilityKeys
    THEN (CHOOSE entry \in {termux_reliability_factors[i] : i \in 1..4} :
              entry[1] = reliability)[2]
    ELSE Zero

(* reliability_factors.get(reliability, 1.0) *)
termux_reliability_factor(reliability) ==
    IF reliability \in TermuxReliabilityKeys
    THEN (CHOOSE entry \in {termux_reliability_factors[i] : i \in 1..4} :
              entry[1] = reliability)[2]
    ELSE Num(1)

termux_bearing_life(load, speed, dynamic_capacity, reliability) ==
    IF load = Zero THEN ZeroDivisionError
    ELSE
    Let(Pow(Div(dynamic_capacity, load), 3), LAMBDA L10 :
    IF Mul(Num(60), speed) = Zero THEN ZeroDivisionError
    ELSE
    Let(Div(Mul(L10, Dec(1, 6)), Mul(Num(60), speed)), LAMBDA life_hours :
    Return([basic_life_revolutions |-> Mul(L10, Dec(1, 6)),
            life_hours |-> life_hours,
            adjusted_life_hours |->
                Mul(life_hours, termux_reliability_factor(reliability))])))

-----------------------------------------------------------------------------
(* kinematics.linear_motion and kinematics.angular_motion (termux). The    *)
(* optional arguments are None or Some(number); the dictionary returned    *)
(* holds the quantities that were computed.                                *)

termux_linear_motion(initial_velocity, final_velocity, acceleration, time, displacement) ==
    LET timed == acceleration # None /\ time # None
        first == final_velocity = None /\ timed
        final_velocity1 ==
            IF first THEN Some(Add(initial_velocity, Mul(Val(acceleration), Val(time))))
            ELSE final_velocity
        results1 == IF first THEN [final_velocity |-> Val(final_velocity1)] ELSE EmptyDict
        second == displacement = None /\ timed
        displacement1 ==
            IF second
            THEN Some(Add(Mul(initial_velocity, Val(time)),
                          Mul(Mul(Mul(Dec(5, -1), Val(acceleration)), Val(time)), Val(time))))
            ELSE displacement
        results2 == IF second THEN [displacement |-> Val(displacement1)] @@ results1
                    ELSE results1
        third == final_velocity1 = None /\ acceleration # None /\ displacement1 # None
        radicand == Add(Mul(initial_velocity, initial_velocity),
                        Mul(Mul(Num(2), Val(acceleration)), Val(displacement1)))
    IN  IF ~third THEN Return(results2)
        ELSE IF Sign(radicand) < 0 THEN Raise("ValueError", <<"math", "domain", "error">>)
        ELSE Return([final_velocity |-> math_sqrt(radicand)] @@ results2)

termux_angular_motion(initial_angular_velocity, final_angular_velocity, angular_acceleration, time, angular_displacement) ==
    LET timed == angular_acceleration # None /\ time # None
        first == final_angular_velocity = None /\ timed
        final_angular_velocity1 ==
            IF first
            THEN Some(Add(initial_angular_velocity, Mul(Val(angular_acceleration), Val(time))))
            ELSE final_angular_velocity
        results1 == IF first THEN [final_angular_velocity |-> Val(final_angular_velocity1)]
                    ELSE EmptyDict
        second == angular_displacement = None /\ timed
        angular_displacement1 ==
            IF second
            THEN Some(Add(Mul(initial_angular_velocity, Val(time)),
                          Mul(Mul(Mul(Dec(5, -1), Val(angular_acceleration)), Val(time)),
                              Val(time))))
            ELSE angular_displacement
        results2 == IF second THEN [angular_displacement |-> Val(angular_displacement1)] @@ results1
                    ELSE results1
        third == final_angular_velocity1 = None /\ angular_acceleration # None
                    /\ angular_displacement1 # None
        radicand == Add(Mul(initial_angular_velocity, initial_angular_velocity),
                        Mul(Mul(Num(2), Val(angular_acceleration)), Val(angular_displacement1)))
    IN  IF ~third THEN Return(results2)
        ELSE IF Sign(radicand) < 0 THEN Raise("ValueError", <<"math", "domain", "error">>)
        ELSE Return([final_angular_velocity |-> math_sqrt(radicand)] @@ results2)

-----------------------------------------------------------------------------
(* The termux program: mechsolver.main and kinematics.calculator. The      *)
(* standard output is kept as the sequence of the messages that follow an  *)
(* input; the menus and blank lines between them are left out.             *)

Line(by, line, option, value, entered) ==
    [by |-> by, line |-> line, option |-> option, value |-> value, entered |-> entered]

(* print_header() *)
HeaderLine == Line("main", "MechSolver - Termux Edition", "", NoValue, <<>>)
ThanksLine == Line("main", "Thank you for using MechSolver!", "", NoValue, <<>>)
ExitingLine == Line("main", "Exiting MechSolver...", "", NoValue, <<>>)
InvalidChoiceLine(by) == Line(by, "Invalid choice, please try again", "", NoValue, <<>>)
ErrorLine(by, msg) == Line(by, "Error:", "", [msg |-> msg], <<>>)
ResultsLine(option, value, entered) == Line("calculator", "Results:", option, value, entered)

(* float(text) raising ValueError *)
CouldNotConvert == <<"could", "not", "convert", "string", "to", "float">>

(* print(..., result) where the local result has no value *)
UnboundLocalError == Raise("UnboundLocalError", <<"result">>)

(* One pass of the calculator's loop: the value of the local result after  *)
(* it, the line printed, and the exception that leaves calculator(), if    *)
(* any.                                                                    *)
Pass(result, line, raised) == [result |-> result, line |-> line, raised |-> raised]

(* choice == "1" *)
linear_option(result, u_text, sub_choice, a_text, t_text) ==
    LET u == float_parse(u_text)
        a == float_parse(a_text)
        t == float_parse(t_text)
    IN  IF u = None THEN Pass(result, Some(ErrorLine("calculator", CouldNotConvert)), None)
        ELSE IF sub_choice \in {<<"1">>, <<"2">>}
        THEN IF a = None \/ t = None
             THEN Pass(result, Some(ErrorLine("calculator", CouldNotConvert)), None)
             ELSE LET computed == termux_linear_motion(Val(u), None, a, t, None)
                  IN  IF Raised(computed)
                      THEN Pass(result, Some(ErrorLine("calculator", computed.msg)), None)
                      ELSE Pass(Some(computed.value),
                                Some(ResultsLine("1", computed.value,
                                                 <<u_text, sub_choice, a_text, t_text>>)),
                                None)
        ELSE IF result = None THEN Pass(result, None, Some(UnboundLocalError))
        ELSE Pass(result, Some(ResultsLine("1", Val(result), <<u_text, sub_choice>>)), None)

(* choice == "2" *)
angular_option(result, w0_text, alpha_text, t_text) ==
    LET w0 == float_parse(w0_text)
        alpha == float_parse(alpha_text)
        t == float_parse(t_text)
    IN  IF w0 = None \/ alpha = None \/ t = None
        THEN Pass(result, Some(ErrorLine("calculator", CouldNotConvert)), None)
        ELSE LET computed == termux_angular_motion(Val(w0), None, alpha, t, None)
             IN  IF Raised(computed)
                 THEN Pass(result, Some(ErrorLine("calculator", computed.msg)), None)
                 ELSE Pass(Some(computed.value),
                           Some(ResultsLine("2", computed.value,
                                            <<w0_text, alpha_text, t_text>>)),
                           None)

(* the whole degrees of an angle that was entered *)
WholeDegrees(angle) == IF angle = Num(90) THEN 90 ELSE 0

(* choice == "3"; the items of the result are printed one to a line *)
projectile_option(result, v0_text, angle_text, h0_text) ==
    LET v0 == float_parse(v0_text)
        angle == float_parse(angle_text)
        h0 == float_parse(h0_text)
    IN  IF v0 = None \/ angle = None \/ h0 = None
        THEN Pass(result, Some(ErrorLine("calculator", CouldNotConvert)), None)
        ELSE LET computed == termux_projectile_motion(Val(v0), WholeDegrees(Val(angle)),
                                                      Val(h0))
             IN  IF Raised(computed)
                 THEN Pass(result, Some(ErrorLine("calculator", computed.msg)), None)
                 ELSE Pass(Some(computed.value),
                           Some(ResultsLine("3", computed.value,
                                            <<v0_text, angle_text, h0_text>>)),
                           None)

(* BaseException subclasses that are not Exception subclasses *)
IsException(exc) == exc \notin {"KeyboardInterrupt", "SystemExit", "GeneratorExit"}

(* the except clause of main() that takes an exception raised by           *)
(* calculator(): "continue" for except Exception around the call,          *)
(* "exit" for except (EOFError, KeyboardInterrupt) of the loop, "fatal"    *)
(* for the outermost except Exception                                      *)
main_handler_Narrow(exc) ==
    IF exc = "ValueError" THEN "continue"
    ELSE IF exc \in {"EOFError", "KeyboardInterrupt"} THEN "exit"
    ELSE IF IsException(exc) THEN "fatal"
    ELSE "propagate"

main_handler(exc) ==
    IF IsException(exc) THEN "continue"
    ELSE IF exc \in {"EOFError", "KeyboardInterrupt"} THEN "exit"
    ELSE IF IsException(exc) THEN "fatal"
    ELSE "propagate"

-----------------------------------------------------------------------------
(* Bounds of the argument sets.                                            *)

MaxGas == 2

Nums(lo, hi) == {Num(k) : k \in lo..hi}
Opt(S) == {None} \cup {Some(x) : x \in S}

GasArgs == Opt(Nums(0, MaxGas))

MaxLink == 3
MaxAngles == 1
Degrees == {0, 90, 180, 270}
RECURSIVE SeqsUpTo(_, _)
SeqsUpTo(S, k) ==
    IF k = 0 THEN {<<>>}
    ELSE SeqsUpTo(S, k - 1) \cup {Append(q, x) : q \in {r \in SeqsUpTo(S, k - 1) : Len(r) = k - 1}, x \in S}

(* open_channel_flow: values for which the exact froude comparison stays   *)
(* within TLC's 32-bit integers, reaching both flow regimes.               *)
ChannelWidths == {Num(0), Num(2), Num(3)}
ChannelDepths == {Num(0), Num(1)}
ChannelSlopes == {Num(0), Num(1), Num(25)}
ManningNs == {Num(0), Num(1)}
ChannelTypes == {"rectangular", "trapezoidal", "triangular"}

MaxThermal == 1
ThermalExpansions == {Zero, Dec(12, -6)}
YoungsModuli == {Zero, Dec(2, 11)}
ConstraintTypes == {"full", "partial", "free", "FULL"}

MaxDim == 2
VesselTypes == {"thin_cylinder", "thick_cylinder", "sphere", "cone"}
WeirTypes == {"rectangular", "v-notch", "trapezoidal"}
CamTypes == {"simple_harmonic", "cycloidal", "parabolic", "polynomial"}

MaxBearing == 2
Reliabilities == {Dec(90, -2), Dec(95, -2), Dec(99, -2), Dec(999, -3), Dec(5, -1), Num(1)}
Applications == {"ball", "roller"}

MaxMaterial == 2
MaterialCodes == {"STEEL_1045", "AL_6061", "BRASS_360", "steel_1045", "TI_6AL4V", ""}

MaxGears == 3
MaxTeeth == 4
TeethCounts == {0} \cup {10 * k : k \in 1..MaxTeeth}
InputSpeeds == {Num(0), Num(1000)}
Efficiencies == {Num(0), Dec(9, -1), Num(1)}

MaxMotion == 1
MotionArgs == Opt(Nums(-MaxMotion, MaxMotion))

MaxStress == 2
Strengths == Nums(0, MaxStress)
SurfaceFactors == {Dec(9, -1), Num(1)}
SizeFactors == {Dec(95, -2), Num(1)}
ReliabilityFactors == {Dec(897, -3), Num(1)}

MaxFlow == 2
Heights == {Num(0), Num(1)}
Pressures == {Num(0), Num(101325)}
FluidDensities == {Num(0), Num(1000)}

MaxLoad == 2
(* torque and bending moment (N*m) with a rational equivalent moment *)
ShaftLoads ==
    {<<Num(t), Num(1000 * k)>> : t \in {0}, k \in 0..MaxLoad}
        \cup {<<Num(2000 * k), Num(1000 * k)>> : k \in 1..MaxLoad}
YieldStrengths == {Num(0), Num(10), Num(250)}
FatigueStrengths == {None, Some(Num(0)), Some(Num(100)), Some(Num(300))}
SafetyFactors == {Num(1), Num(2)}
StressConcentrations == {Num(1), Dec(15, -1)}

MaxPower == 2
Powers == {Num(5 * k) : k \in 0..MaxPower}
GearSpeeds == {Num(0), Num(10), Num(1000)}
GearRatios == {Num(0), Num(2), Dec(25, -1)}
QualityGrades == {7}
MaterialStrengths == {Num(0), Num(300)}

BeltPowers == {Num(0), Num(4), Num(5)} \cup {Num(20 * k) : k \in 1..MaxPower}
BeltSpeeds == {Num(0), Num(500), Num(1000)}
CenterDistances == {Num(0), Dec(1, -2), Num(1)}
BeltTypes == {"V", "flat"}

MaxTemp == 2
Temperatures == Nums(-MaxTemp, MaxTemp)

MaxVelocity == 1
MaxSteps == 80
LaunchAngles == {0, 90}
LaunchHeights == {Zero, Dec(1, -2)}
Gravities == {Dec(981, -2), Num(100)}
DragCoefficients == {Zero, Num(1), Num(100)}
(* a launch height at which a step of the fall is under half a unit in the *)
(* last place of the height, and a launch velocity whose square exceeds    *)
(* the largest double                                                      *)
HighAltitude == Dec(1, 18)
ExtremeVelocity == Dec(1, 200)
(* the launches that 32-bit rationals can follow to the end: no drag; a    *)
(* drop or a vertical launch at 1 m/s under g = 100, over within two       *)
(* steps; a drop from HighAltitude at terminal velocity; a level launch at *)
(* ExtremeVelocity                                                         *)
TractableFlight(initial_velocity, angle, height, g, drag_coefficient) ==
    \/ /\ initial_velocity # ExtremeVelocity /\ height # HighAltitude
       /\ \/ drag_coefficient = Zero
          \/ g = Num(100) /\ initial_velocity = Zero
          \/ g = Num(100) /\ angle = 90 /\ initial_velocity = Num(1)
    \/ /\ height = HighAltitude /\ initial_velocity = Zero
       /\ g = Num(100) /\ drag_coefficient = Num(100)
    \/ initial_velocity = ExtremeVelocity /\ angle = 0 /\ height # HighAltitude

MaxScrew == 3
ScrewLoads == {Num(0), Num(1000)}
ScrewSizes == Nums(0, MaxScrew)
ScrewFrictions == {Zero, Dec(15, -2)}
CollarFrictions == {Zero, Dec(12, -2)}
CollarDiameters == {None, Some(Num(2))}
MaxEntries == 2
MaxLimit == 1
InputVariants == {"pc", "termux", "interactive"}
MinimumLimits == {None, Some(Zero)}
MaximumLimits == {None} \cup {Some(Num(k)) : k \in 1..MaxLimit}
EnteredTexts ==
    {<<>>, <<"a", "b", "c">>, <<".">>, <<"0">>, <<"1">>, <<" ", "1", " ">>, <<"-", "1">>,
     <<"0", ".", "5">>, <<"2">>, <<"+", "2", ".">>, <<"n", "a", "n">>, <<"i", "n", "f">>,
     <<"-", "i", "n", "f">>}
(* a height from which a fall under g = 9.81 takes a rational time *)
TallLaunch == Dec(1962, -2)
(* the longest record of the standard output *)
MaxLines == 4
NumberTexts == {<<"0">>, <<"2">>, <<"x">>}
FewTexts == {<<"2">>, <<"x">>}
AngleTexts == {<<"0">>, <<"x">>}
SubChoices == {<<"1">>, <<"2">>, <<"3">>}
InputExceptions == {"EOFError", "KeyboardInterrupt"}
(* what the calculators of the choices 2 to 6, which are not followed pass *)
(* by pass, can do: return on B, raise from a formula, raise from input()  *)
ModuleOutcomes ==
    {Return(NoValue), ZeroDivisionError, Raise("EOFError", <<"EOF", "when", "reading", "a", "line">>),
     Raise("KeyboardInterrupt", <<>>)}
AngleArgs ==
    {[list |-> FALSE, at |-> <<deg>>] : deg \in Degrees}
        \cup {[list |-> TRUE, at |-> q] : q \in SeqsUpTo(Degrees, MaxAngles)}

-----------------------------------------------------------------------------
(* The request/response machine.                                           *)

NoCall == [fn |-> "", variant |-> "", args |-> <<>>]
NoOutcome == [kind |-> "", value |-> NoValue, exc |-> "", msg |-> <<>>]
(* no function is in the middle of a loop *)
NoFrame == <<>>

Init ==
    /\ MATERIALS_DB = InitialMaterialsDb
    /\ pc = "idle"
    /\ call = NoCall
    /\ outcome = NoOutcome
    /\ remembered = None
    /\ frame = NoFrame

Invoke(fn, variant, args, result) ==
    /\ pc = "idle"
    /\ pc' = "returned"
    /\ call' = [fn |-> fn, variant |-> variant, args |-> args]
    /\ outcome' = result
    /\ UNCHANGED <<remembered, frame>>

CallIdealGasLawPc ==
    /\ \E p, v, n, t \in GasArgs :
          Invoke("ideal_gas_law", "pc", <<p, v, n, t>>,
                 pc_ideal_gas_law(p, v, n, t, GasConstant))
    /\ UNCHANGED MATERIALS_DB

CallIdealGasLawTermux ==
    /\ \E p, v, n, t \in GasArgs :
          Invoke("ideal_gas_law", "termux", <<p, v, n, t>>,
                 termux_ideal_gas_law(p, v, n, t, GasConstant))
    /\ UNCHANGED MATERIALS_DB

CallFourBarMechanism ==
    /\ \E a, b, c, d \in Nums(1, MaxLink), angle \in AngleArgs :
          Invoke("four_bar_mechanism", "pc", <<a, b, c, d, angle>>,
                 four_bar_mechanism(a, b, c, d, angle))
    /\ UNCHANGED MATERIALS_DB

CallOpenChannelFlow ==
    /\ \E w \in ChannelWidths, depth \in ChannelDepths, slope \in ChannelSlopes,
          n \in ManningNs, type \in ChannelTypes :
          Invoke("open_channel_flow", "pc", <<w, depth, slope, n, type>>,
                 open_channel_flow(w, depth, slope, n, type))
    /\ UNCHANGED MATERIALS_DB

CallThermalStress ==
    /\ \E dT \in Nums(-MaxThermal, MaxThermal), alpha \in ThermalExpansions,
          E \in YoungsModuli, constraint \in ConstraintTypes :
          Invoke("thermal_stress", "pc", <<dT, alpha, E, constraint>>,
                 thermal_stress(dT, alpha, E, constraint))
    /\ UNCHANGED MATERIALS_DB

CallPressureVesselStress ==
    /\ \E p, r, t \in Nums(0, MaxDim), type \in VesselTypes :
          Invoke("pressure_vessel_stress", "pc", <<p, r, t, type>>,
                 pressure_vessel_stress(p, r, t, type))
    /\ UNCHANGED MATERIALS_DB

CallWeirFlow ==
    /\ \E height, width, head \in Nums(0, MaxDim), type \in WeirTypes :
          Invoke("weir_flow", "pc", <<height, width, head, type>>,
                 weir_flow(height, width, head, type))
    /\ UNCHANGED MATERIALS_DB

CallCamAnalysis ==
    /\ \E base, lift \in Nums(0, MaxDim), angle \in AngleArgs, type \in CamTypes :
          Invoke("cam_analysis", "pc", <<base, lift, angle, type>>,
                 cam_analysis(base, lift, angle, type))
    /\ UNCHANGED MATERIALS_DB

CallBearingLifePc ==
    /\ \E load, speed, capacity \in Nums(0, MaxBearing), reliability \in Reliabilities,
          application \in Applications :
          Invoke("bearing_life", "pc", <<load, speed, capacity, reliability, application>>,
                 pc_bearing_life(load, speed, capacity, reliability, application))
    /\ UNCHANGED MATERIALS_DB

CallGetMaterialProperties ==
    \E code \in MaterialCodes :
        /\ Invoke("get_material_properties", "termux", <<code>>,
                  Return(get_material_properties(MATERIALS_DB, code)))
        /\ MATERIALS_DB' = dict_get_table(MATERIALS_DB, code)

CallCalculateStressStrain ==
    \E force, area \in Nums(0, MaxMaterial), code \in MaterialCodes :
        /\ Invoke("calculate_stress_strain", "termux", <<code, force, area>>,
                  calculate_stress_strain(MATERIALS_DB, force, area, code))
        /\ MATERIALS_DB' = dict_get_table(MATERIALS_DB, code)

CallThermalExpansion ==
    \E code \in MaterialCodes, length \in Nums(0, MaxMaterial),
       dT \in Nums(-MaxMaterial, MaxMaterial) :
        /\ Invoke("thermal_expansion", "termux", <<code, length, dT>>,
                  thermal_expansion(MATERIALS_DB, code, length, dT))
        /\ MATERIALS_DB' = dict_get_table(MATERIALS_DB, code)

CallHeatConduction ==
    \E code \in MaterialCodes, area, thickness \in Nums(0, MaxMaterial),
       dT \in Nums(-1, 1) :
        /\ Invoke("heat_conduction", "termux", <<code, area, thickness, dT>>,
                  heat_conduction(MATERIALS_DB, code, area, thickness, dT))
        /\ MATERIALS_DB' = dict_get_table(MATERIALS_DB, code)

CallMaterialCostEstimate ==
    \E code \in MaterialCodes, volume, factor \in Nums(0, MaxMaterial) :
        /\ Invoke("material_cost_estimate", "termux", <<code, volume, factor>>,
                  material_cost_estimate(MATERIALS_DB, code, volume, factor))
        /\ MATERIALS_DB' = dict_get_table(MATERIALS_DB, code)

CallGearTrainAnalysis ==
    /\ \E teeth \in SeqsUpTo(TeethCounts, MaxGears), speed \in InputSpeeds,
          efficiency \in Efficiencies :
          Invoke("gear_train_analysis", "pc", <<teeth, speed, efficiency>>,
                 gear_train_analysis(teeth, speed, efficiency))
    /\ UNCHANGED MATERIALS_DB

CallSolveMotion ==
    /\ \E v, a, t, s \in MotionArgs :
          Invoke("solve_motion", "pc", <<v, a, t, s>>, solve_motion(v, a, t, s))
    /\ UNCHANGED MATERIALS_DB

CallFatigueAnalysis ==
    /\ \E stress_max, stress_min \in Nums(-MaxStress, MaxStress),
          ultimate_strength, endurance_limit \in Strengths,
          surface_factor \in SurfaceFactors, size_factor \in SizeFactors,
          reliability_factor \in ReliabilityFactors :
          Invoke("fatigue_analysis", "pc",
                 <<stress_max, stress_min, ultimate_strength, endurance_limit,
                   surface_factor, size_factor, reliability_factor>>,
                 fatigue_analysis(stress_max, stress_min, ultimate_strength,
                                  endurance_limit, surface_factor, size_factor,
                                  reliability_factor))
    /\ UNCHANGED MATERIALS_DB

(* The caller keeps one finished call and its outcome for later            *)
(* comparison; the program itself keeps nothing between calls.             *)
SolvedForMoles(c, o) ==
    /\ c.fn = "ideal_gas_law"
    /\ c.variant = "pc"
    /\ c.args[3] = None
    /\ Returned(o)

RememberMoles ==
    /\ pc = "returned"
    /\ remembered = None
    /\ SolvedForMoles(call, outcome)
    /\ remembered' = Some([call |-> call, outcome |-> outcome])
    /\ UNCHANGED <<MATERIALS_DB, pc, call, outcome, frame>>

(* Given the moles a remembered call returned, solve for the pressure at   *)
(* the same volume and temperature.                                        *)
CallIdealGasLawPcRoundTrip ==
    /\ remembered # None
    /\ SolvedForMoles(Val(remembered).call, Val(remembered).outcome)
    /\ Invoke("ideal_gas_law", "pc",
              <<None, Val(remembered).call.args[2],
                Some(Val(remembered).outcome.value.moles), Val(remembered).call.args[4]>>,
              pc_ideal_gas_law(None, Val(remembered).call.args[2],
                               Some(Val(remembered).outcome.value.moles),
                               Val(remembered).call.args[4], GasConstant))
    /\ UNCHANGED MATERIALS_DB

CallBernoulliEquation ==
    /\ \E height1, height2 \in Heights, velocity1 \in Nums(0, MaxFlow),
          pressure1 \in Pressures, velocity2 \in Opt(Nums(0, MaxFlow)),
          pressure2 \in Opt(Pressures), fluid_density \in FluidDensities :
          Invoke("bernoulli_equation", "pc",
                 <<height1, velocity1, pressure1, height2, velocity2, pressure2,
                   fluid_density>>,
                 bernoulli_equation(height1, velocity1, pressure1, height2, velocity2,
                                    pressure2, fluid_density))
    /\ UNCHANGED MATERIALS_DB

CallShaftDesign ==
    /\ \E load \in ShaftLoads, material_yield_strength \in YieldStrengths,
          fatigue_strength \in FatigueStrengths, safety_factor \in SafetyFactors,
          stress_concentration_factor \in StressConcentrations :
          Invoke("shaft_design", "pc",
                 <<load[1], load[2], material_yield_strength, fatigue_strength,
                   safety_factor, stress_concentration_factor>>,
                 shaft_design(load[1], load[2], material_yield_strength, fatigue_strength,
                              safety_factor, stress_concentration_factor))
    /\ UNCHANGED MATERIALS_DB

CallGearDesign ==
    /\ \E power \in Powers, speed \in GearSpeeds, gear_ratio \in GearRatios,
          quality_grade \in QualityGrades, material_strength \in MaterialStrengths :
          Invoke("gear_design", "pc",
                 <<power, speed, gear_ratio, Num(20), quality_grade, material_strength>>,
                 gear_design(power, speed, gear_ratio, Num(20), quality_grade,
                             material_strength))
    /\ UNCHANGED MATERIALS_DB

CallBeltDesign ==
    /\ \E power \in BeltPowers, speed_driver, speed_driven \in BeltSpeeds,
          center_distance \in CenterDistances, belt_type \in BeltTypes :
          Invoke("belt_design", "pc",
                 <<power, speed_driver, speed_driven, center_distance, belt_type>>,
                 belt_design(power, speed_driver, speed_driven, center_distance, belt_type))
    /\ UNCHANGED MATERIALS_DB

CallCarnotEfficiency ==
    /\ \E t_hot, t_cold \in Temperatures :
          Invoke("carnot_efficiency", "pc", <<t_hot, t_cold>>,
                 carnot_efficiency(t_hot, t_cold))
    /\ UNCHANGED MATERIALS_DB

(* projectile_motion(..., air_resistance=False) *)
CallProjectileMotion ==
    /\ \E initial_velocity \in Nums(0, MaxVelocity), angle \in LaunchAngles,
          height \in LaunchHeights, g \in Gravities, drag_coefficient \in DragCoefficients :
          Invoke("projectile_motion", "pc",
                 <<initial_velocity, angle, height, g, FALSE, drag_coefficient>>,
                 projectile_closed_form(Mul(initial_velocity, CosDeg(angle)),
                                        Mul(initial_velocity, SinDeg(angle)), height, g))
    /\ UNCHANGED MATERIALS_DB

(* projectile_motion(..., air_resistance=True) up to the loop *)
StartProjectileIntegration ==
    /\ pc = "idle"
    /\ \E initial_velocity \in Nums(0, MaxVelocity) \cup {ExtremeVelocity},
          angle \in LaunchAngles, height \in LaunchHeights \cup {HighAltitude},
          g \in Gravities, drag_coefficient \in DragCoefficients :
          /\ TractableFlight(initial_velocity, angle, height, g, drag_coefficient)
          /\ call' = [fn |-> "projectile_motion", variant |-> "pc",
                      args |-> <<initial_velocity, angle, height, g, TRUE,
                                 drag_coefficient>>]
          /\ frame' = initial_frame(Mul(initial_velocity, CosDeg(angle)),
                                    Mul(initial_velocity, SinDeg(angle)), height)
    /\ pc' = "integrating"
    /\ UNCHANGED <<MATERIALS_DB, outcome, remembered>>

ProjectileStep ==
    /\ pc = "integrating"
    /\ loop_continues(frame.y)
    /\ Len(frame.y) <= MaxSteps
    /\ frame' = integration_step(frame, call.args[4], call.args[6])
    /\ UNCHANGED <<MATERIALS_DB, pc, call, outcome, remembered>>

ProjectileReturn ==
    /\ pc = "integrating"
    /\ ~loop_continues(frame.y)
    /\ outcome' = integration_result(frame)
    /\ pc' = "returned"
    /\ frame' = NoFrame
    /\ UNCHANGED <<MATERIALS_DB, call, remembered>>

(* An observer keeps one finished call with its outcome, and notes when a  *)
(* different call has finished after it.                                   *)
Memorable(c) ==
    \/ c.fn = "get_material_properties"
    \/ /\ c.fn = "projectile_motion"
       /\ c.args[1] = Num(1) /\ c.args[2] = 90 /\ c.args[3] = Zero
       /\ c.args[4] = Num(100) /\ c.args[6] = Zero

Remember ==
    /\ pc = "returned"
    /\ remembered = None
    /\ Memorable(call)
    /\ remembered' = Some([call |-> call, outcome |-> outcome, between |-> FALSE])
    /\ UNCHANGED <<MATERIALS_DB, pc, call, outcome, frame>>

NoteOther ==
    /\ pc = "returned"
    /\ remembered # None
    /\ Val(remembered).call # call
    /\ ~Val(remembered).between
    /\ remembered' = Some([Val(remembered) EXCEPT !.between = TRUE])
    /\ UNCHANGED <<MATERIALS_DB, pc, call, outcome, frame>>

CallPowerScrewDesign ==
    /\ \E axial_load \in ScrewLoads, mean_diameter \in ScrewSizes, pitch \in ScrewSizes,
          coefficient_friction \in ScrewFrictions, collar_friction \in CollarFrictions,
          collar_mean_diameter \in CollarDiameters :
          Invoke("power_screw_design", "pc",
                 <<axial_load, mean_diameter, pitch, coefficient_friction, collar_friction,
                   collar_mean_diameter>>,
                 power_screw_design(axial_load, mean_diameter, pitch, coefficient_friction,
                                    collar_friction, collar_mean_diameter))
    /\ UNCHANGED MATERIALS_DB

(* get_float_input(prompt, min_val, max_val) up to the first input() *)
CallGetFloatInput ==
    /\ pc = "idle"
    /\ \E variant \in InputVariants, min_val \in MinimumLimits, max_val \in MaximumLimits :
          call' = [fn |-> "get_float_input", variant |-> variant,
                   args |-> <<min_val, max_val>>]
    /\ pc' = "prompting"
    /\ frame' = [typed |-> <<>>]
    /\ UNCHANGED <<MATERIALS_DB, outcome, remembered>>

(* the user types a line: one pass of the loop *)
EnterLine ==
    /\ pc = "prompting"
    /\ Len(frame.typed) < MaxEntries
    /\ \E text \in EnteredTexts :
          /\ frame' = [typed |-> Append(frame.typed, text)]
          /\ LET value == get_float_input_pass(text, call.args[1], call.args[2])
             IN  IF value = None
                 THEN UNCHANGED <<pc, outcome>>
                 ELSE pc' = "returned" /\ outcome' = Return(Val(value))
    /\ UNCHANGED <<MATERIALS_DB, call, remembered>>

CallProjectileMotionTermux ==
    /\ \E initial_velocity \in Nums(0, MaxVelocity), angle \in LaunchAngles,
          height \in LaunchHeights \cup {TallLaunch} :
          Invoke("projectile_motion", "termux", <<initial_velocity, angle, height>>,
                 termux_projectile_motion(initial_velocity, angle, height))
    /\ UNCHANGED MATERIALS_DB

CallBernoulliEquationTermux ==
    /\ \E height1, height2 \in Heights, velocity1 \in Nums(0, MaxFlow),
          pressure1 \in Pressures, velocity2 \in Opt(Nums(0, MaxFlow)),
          pressure2 \in Opt(Pressures), density \in FluidDensities :
          Invoke("bernoulli_equation", "termux",
                 <<height1, velocity1, pressure1, height2, velocity2, pressure2, density>>,
                 termux_bernoulli_equation(height1, velocity1, pressure1, height2,
                                           velocity2, pressure2, density))
    /\ UNCHANGED MATERIALS_DB

CallBearingLifeTermux ==
    /\ \E load, speed, capacity \in Nums(0, MaxBearing), reliability \in Reliabilities :
          Invoke("bearing_life", "termux", <<load, speed, capacity, reliability>>,
                 termux_bearing_life(load, speed, capacity, reliability))
    /\ UNCHANGED MATERIALS_DB

(* mechsolver.main() (termux) up to the first input() of get_choice *)
StartMain ==
    /\ pc = "idle"
    /\ pc' = "main_menu"
    /\ call' = [fn |-> "main", variant |-> "termux", args |-> <<>>]
    /\ frame' = [stdout |-> <<HeaderLine>>, result |-> None, status |-> None]
    /\ UNCHANGED <<MATERIALS_DB, outcome, remembered>>

(* main() after calculator() has returned or raised, up to its next input() *)
AfterCalculator(o) ==
    /\ outcome' = o
    /\ IF Returned(o)
       THEN /\ pc' = "main_menu"
            /\ frame' = [frame EXCEPT !.stdout = Append(@, HeaderLine), !.result = None]
       ELSE LET handler == main_handler(o.exc)
            IN  IF handler = "continue"
                THEN /\ pc' = "press_enter"
                     /\ frame' = [frame EXCEPT !.stdout = Append(@, ErrorLine("main", o.msg)),
                                               !.result = None]
                ELSE IF handler = "exit"
                THEN /\ pc' = "exited"
                     /\ frame' = [frame EXCEPT !.stdout = Append(@, ExitingLine),
                                               !.result = None, !.status = Some(0)]
                ELSE /\ pc' = "exited"
                     /\ frame' = [frame EXCEPT
                                     !.stdout = Append(@, Line("main", "Fatal Error:", "",
                                                               [msg |-> o.msg], <<>>)),
                                     !.result = None, !.status = Some(1)]

(* get_choice returns "1": kinematics.calculator() up to its first input() *)
MainSelectKinematics ==
    /\ pc = "main_menu"
    /\ pc' = "calculator_menu"
    /\ frame' = [frame EXCEPT !.result = None]
    /\ outcome' = NoOutcome
    /\ UNCHANGED <<MATERIALS_DB, call, remembered>>

(* get_choice returns one of "2" to "6" and that calculator runs *)
MainSelectModule ==
    /\ pc = "main_menu"
    /\ Len(frame.stdout) < MaxLines
    /\ \E o \in ModuleOutcomes : AfterCalculator(o)
    /\ UNCHANGED <<MATERIALS_DB, call, remembered>>

(* get_choice reads a line that is not an option *)
MainInvalid ==
    /\ pc = "main_menu"
    /\ Len(frame.stdout) < MaxLines
    /\ frame' = [frame EXCEPT !.stdout = Append(@, InvalidChoiceLine("get_choice"))]
    /\ UNCHANGED <<MATERIALS_DB, pc, call, outcome, remembered>>

(* get_choice returns "Q" *)
MainQuit ==
    /\ pc = "main_menu"
    /\ Len(frame.stdout) < MaxLines
    /\ pc' = "exited"
    /\ frame' = [frame EXCEPT !.stdout = Append(@, ThanksLine), !.status = Some(0)]
    /\ UNCHANGED <<MATERIALS_DB, call, outcome, remembered>>

(* input() of get_choice raises EOFError or KeyboardInterrupt *)
MainInterrupted ==
    /\ pc = "main_menu"
    /\ Len(frame.stdout) < MaxLines
    /\ pc' = "exited"
    /\ frame' = [frame EXCEPT !.stdout = Append(@, ExitingLine), !.status = Some(0)]
    /\ UNCHANGED <<MATERIALS_DB, call, outcome, remembered>>

(* input("Press Enter to continue...") returns; the loop prints the header *)
PressEnter ==
    /\ pc = "press_enter"
    /\ Len(frame.stdout) < MaxLines
    /\ pc' = "main_menu"
    /\ frame' = [frame EXCEPT !.stdout = Append(@, HeaderLine)]
    /\ outcome' = NoOutcome
    /\ UNCHANGED <<MATERIALS_DB, call, remembered>>

(* input("Press Enter to continue...") raises EOFError or KeyboardInterrupt *)
PressEnterInterrupted ==
    /\ pc = "press_enter"
    /\ Len(frame.stdout) < MaxLines
    /\ pc' = "exited"
    /\ frame' = [frame EXCEPT !.stdout = Append(@, ExitingLine), !.status = Some(0)]
    /\ outcome' = NoOutcome
    /\ UNCHANGED <<MATERIALS_DB, call, remembered>>

(* the end of one pass of the calculator's loop *)
CalculatorPass(pass) ==
    IF pass.raised # None THEN AfterCalculator(Val(pass.raised))
    ELSE /\ frame' = [frame EXCEPT !.result = pass.result,
                                   !.stdout = IF pass.line = None THEN @
                                              ELSE Append(@, Val(pass.line))]
         /\ UNCHANGED <<pc, outcome>>

CalculatorLinear ==
    /\ pc = "calculator_menu"
    /\ Len(frame.stdout) < MaxLines
    /\ \E u_text \in NumberTexts, sub_choice \in SubChoices, a_text, t_text \in FewTexts :
          CalculatorPass(linear_option(frame.result, u_text, sub_choice, a_text, t_text))
    /\ UNCHANGED <<MATERIALS_DB, call, remembered>>

CalculatorAngular ==
    /\ pc = "calculator_menu"
    /\ Len(frame.stdout) < MaxLines
    /\ \E w0_text, alpha_text, t_text \in FewTexts :
          CalculatorPass(angular_option(frame.result, w0_text, alpha_text, t_text))
    /\ UNCHANGED <<MATERIALS_DB, call, remembered>>

CalculatorProjectile ==
    /\ pc = "calculator_menu"
    /\ Len(frame.stdout) < MaxLines
    /\ \E v0_text \in FewTexts, angle_text, h0_text \in AngleTexts :
          CalculatorPass(projectile_option(frame.result, v0_text, angle_text, h0_text))
    /\ UNCHANGED <<MATERIALS_DB, call, remembered>>

(* a choice other than B, 1, 2, 3 *)
CalculatorInvalid ==
    /\ pc = "calculator_menu"
    /\ Len(frame.stdout) < MaxLines
    /\ frame' = [frame EXCEPT !.stdout = Append(@, InvalidChoiceLine("calculator"))]
    /\ UNCHANGED <<MATERIALS_DB, pc, call, outcome, remembered>>

(* choice == "B" *)
CalculatorBack ==
    /\ pc = "calculator_menu"
    /\ Len(frame.stdout) < MaxLines
    /\ AfterCalculator(Return(NoValue))
    /\ UNCHANGED <<MATERIALS_DB, call, remembered>>

(* an input() of the calculator raises EOFError or KeyboardInterrupt *)
CalculatorInterrupted ==
    /\ pc = "calculator_menu"
    /\ Len(frame.stdout) < MaxLines
    /\ \E exc \in InputExceptions : AfterCalculator(Raise(exc, <<>>))
    /\ UNCHANGED <<MATERIALS_DB, call, remembered>>

Continue ==
    /\ pc = "returned"
    /\ pc' = "idle"
    /\ call' = NoCall
    /\ outcome' = NoOutcome
    /\ frame' = NoFrame
    /\ UNCHANGED <<MATERIALS_DB, remembered>>

Next ==
    \/ CallIdealGasLawPc
    \/ CallIdealGasLawTermux
    \/ CallFourBarMechanism
    \/ CallOpenChannelFlow
    \/ CallThermalStress
    \/ CallPressureVesselStress
    \/ CallWeirFlow
    \/ CallCamAnalysis
    \/ CallBearingLifePc
    \/ CallGetMaterialProperties
    \/ CallCalculateStressStrain
    \/ CallThermalExpansion
    \/ CallHeatConduction
    \/ CallMaterialCostEstimate
    \/ CallGearTrainAnalysis
    \/ CallSolveMotion
    \/ CallFatigueAnalysis
    \/ CallBernoulliEquation
    \/ CallShaftDesign
    \/ CallGearDesign
    \/ CallBeltDesign
    \/ CallCarnotEfficiency
    \/ CallProjectileMotion
    \/ StartProjectileIntegration
    \/ ProjectileStep
    \/ ProjectileReturn
    \/ CallPowerScrewDesign
    \/ CallGetFloatInput
    \/ EnterLine
    \/ CallProjectileMotionTermux
    \/ CallBernoulliEquationTermux
    \/ CallBearingLifeTermux
    \/ Continue

Spec == Init /\ [][Next]_vars

(* The ideal-gas calls alone, with a caller that feeds a returned amount   *)
(* of substance into a second call.                                        *)
RoundTripNext ==
    \/ CallIdealGasLawPc
    \/ RememberMoles
    \/ CallIdealGasLawPcRoundTrip
    \/ Continue

RoundTripSpec == Init /\ [][RoundTripNext]_vars

-----------------------------------------------------------------------------
(* Properties.                                                             *)

After(fn) == pc = "returned" /\ call.fn = fn

GasNames == <<"pressure", "volume", "moles", "temperature">>
GasOmitted == {i \in 1..4 : call.args[i] = None}
(* The supplied quantity the solved formula divides by (the gas constant   *)
(* is never zero): volume for pressure, pressure for volume, temperature   *)
(* for moles, moles for temperature.                                       *)
GasDivisor(i) == call.args[<<2, 1, 4, 3>>[i]]

(* C1 as stated: ideal_gas_law (both variants) fails whenever the number   *)
(* of omitted arguments is not exactly one, and with exactly one omitted   *)
(* it returns a mapping whose only key is the omitted quantity.            *)
C1_AsStated ==
    After("ideal_gas_law") =>
        IF Cardinality(GasOmitted) # 1
        THEN Raised(outcome)
        ELSE Returned(outcome) /\ \A i \in GasOmitted : Keys(outcome) = {GasNames[i]}

(* C1 amended: ideal_gas_law (both variants) fails with ValueError         *)
(* whenever the number of omitted arguments is not exactly one; with       *)
(* exactly one omitted it returns a mapping whose only key is the omitted  *)
(* quantity, unless the supplied quantity the formula divides by is zero,  *)
(* in which case it fails with ZeroDivisionError.                          *)
C1_ExactlyThreeOrZeroDivision ==
    After("ideal_gas_law") =>
        IF Cardinality(GasOmitted) # 1
        THEN Raised(outcome) /\ outcome.exc = "ValueError"
        ELSE \A i \in GasOmitted :
                IF Val(GasDivisor(i)) = Zero
                THEN Raised(outcome) /\ outcome.exc = "ZeroDivisionError"
                ELSE Returned(outcome) /\ Keys(outcome) = {GasNames[i]}

C1_Witness ==
    /\ After("ideal_gas_law")
    /\ call.variant = "termux"
    /\ GasOmitted = {3}
    /\ Returned(outcome)
    /\ Keys(outcome) = {"moles"}

(* The four-bar discriminant A^2 + B^2 - C^2 of the call's link lengths at *)
(* crank angle deg, written out: (2ad)^2 - (a^2+d^2-b^2+c^2+2ad*cos)^2.    *)
FourBarDisc(deg) ==
    LET a == call.args[1]
        b == call.args[2]
        c == call.args[3]
        d == call.args[4]
        K == Add(Sub(Add(Mul(a, a), Mul(d, d)), Mul(b, b)), Mul(c, c))
        twoad == Mul(Num(2), Mul(a, d))
    IN  Sub(Mul(twoad, twoad), Pow(Add(K, Mul(twoad, CosDeg(deg))), 2))
FourBarAngles == {call.args[5].at[i] : i \in 1..Len(call.args[5].at)}
FourBarHasNaN ==
    IF call.args[5].list
    THEN \E i \in 1..Len(outcome.value.rocker_angles) :
            IsNaN(outcome.value.rocker_angles[i]) \/ IsNaN(outcome.value.coupler_angles[i])
    ELSE IsNaN(outcome.value.rocker_angle) \/ IsNaN(outcome.value.coupler_angle)

(* C2: four_bar_mechanism signals an explicit failure whenever the         *)
(* discriminant A^2 + B^2 - C^2 is negative at a given crank angle, and    *)
(* never returns a result whose rocker or coupler angle is NaN.            *)
C2_ExplicitFailure ==
    After("four_bar_mechanism") =>
        /\ (\E deg \in FourBarAngles : Sign(FourBarDisc(deg)) < 0) => Raised(outcome)
        /\ Returned(outcome) => ~FourBarHasNaN

ValidChannelTypes == {"rectangular"}
RectangularKeys == {"flow_rate", "velocity", "froude_number", "flow_type"}

C4_InvalidConstraintFails ==
    (After("thermal_stress") /\ call.args[4] \notin {"full", "partial"}) =>
        Raised(outcome) /\ outcome.exc = "ValueError"

ValidSelectors(fn) ==
    CASE fn = "pressure_vessel_stress" -> {"thin_cylinder", "thick_cylinder", "sphere"}
      [] fn = "weir_flow" -> {"rectangular", "v-notch"}
      [] fn = "cam_analysis" -> {"simple_harmonic", "cycloidal", "parabolic"}
SelectorFns == {"pressure_vessel_stress", "weir_flow", "cam_analysis"}
NamesValidOptions == \A v \in ValidSelectors(call.fn) : Mentions(outcome, v)

(* C5 as stated: pressure_vessel_stress, weir_flow and cam_analysis each   *)
(* return a result for every supported selector name and, for any other    *)
(* name, raise a failure whose message lists the valid names.              *)
C5_AsStated ==
    (pc = "returned" /\ call.fn \in SelectorFns) =>
        IF call.args[4] \in ValidSelectors(call.fn)
        THEN Returned(outcome)
        ELSE Raised(outcome) /\ outcome.exc = "ValueError" /\ NamesValidOptions

(* The vessel formulas divide by thickness (thin_cylinder), 2*thickness    *)
(* (sphere), radius^2 and (r_o/r_i)^2 - 1 (thick_cylinder).                *)
VesselDividesByZero ==
    LET radius == call.args[2]
        thickness == call.args[3]
    IN  /\ call.fn = "pressure_vessel_stress"
        /\ \/ thickness = Zero
           \/ call.args[4] = "thick_cylinder"
              /\ (radius = Zero \/ Add(Mul(Num(2), radius), thickness) = Zero)

(* C5 amended: for every supported selector name weir_flow and             *)
(* cam_analysis return a result, and pressure_vessel_stress returns a      *)
(* result unless its formula divides by zero (thickness 0, or radius 0 for *)
(* thick_cylinder), where it fails with ZeroDivisionError; for any other   *)
(* name each raises ValueError with a message listing the valid names.     *)
C5_SelectorDispatch ==
    (pc = "returned" /\ call.fn \in SelectorFns) =>
        IF call.args[4] \in ValidSelectors(call.fn)
        THEN IF VesselDividesByZero
             THEN Raised(outcome) /\ outcome.exc = "ZeroDivisionError"
             ELSE Returned(outcome)
        ELSE Raised(outcome) /\ outcome.exc = "ValueError" /\ NamesValidOptions

C5_Witness ==
    /\ After("pressure_vessel_stress")
    /\ call.args[4] = "thick_cylinder"
    /\ Returned(outcome)
    /\ "hoop_stress_inner" \in Keys(outcome)

(* C6: pc bearing_life called with a reliability that is not one of the    *)
(* table keys 0.90, 0.95, 0.99 fails: it never returns a life computed     *)
(* with a default reliability factor.                                      *)
C6_UnlistedReliabilityFails ==
    (After("bearing_life") /\ call.variant = "pc"
        /\ call.args[4] \notin {Dec(90, -2), Dec(95, -2), Dec(99, -2)}) =>
        Raised(outcome) /\ outcome.exc \in {"KeyError", "ZeroDivisionError"}

C6_Witness ==
    /\ After("bearing_life")
    /\ call.variant = "pc"
    /\ call.args[4] = Dec(5, -1)
    /\ call.args[1] # Zero
    /\ call.args[2] # Zero
    /\ Raised(outcome)
    /\ outcome.exc = "KeyError"

MaterialFns == {"get_material_properties", "calculate_stress_strain", "thermal_expansion",
                "heat_conduction", "material_cost_estimate"}
TableKeys == {"STEEL_1045", "AL_6061", "BRASS_360"}

(* C7: every materials operation called with a material code that is not   *)
(* an exact key of the table yields a 'not found' failure; none returns a  *)
(* normal (possibly empty) result for an absent key.                       *)
C7_AbsentKeyNotFound ==
    (pc = "returned" /\ call.fn \in MaterialFns /\ call.args[1] \notin TableKeys) =>
        Raised(outcome) /\ Mentions(outcome, "not") /\ Mentions(outcome, "found")

(* C8: after any sequence of calls to the five materials operations, the   *)
(* table MATERIALS_DB holds exactly the keys and property values it held   *)
(* at process start.                                                       *)
C8_TableNeverChanges == MATERIALS_DB = InitialMaterialsDb

C8_Witness ==
    /\ After("material_cost_estimate")
    /\ call.args[1] = "TI_6AL4V"
    /\ Raised(outcome)
    /\ MATERIALS_DB = InitialMaterialsDb

RECURSIVE Product(_, _)
Product(f, S) ==
    IF S = {} THEN 1 ELSE LET i == CHOOSE j \in S : TRUE IN f[i] * Product(f, S \ {i})

GearTeeth == call.args[1]
(* the Python indices i = 0, 2, 4, ... with i < n - 1 *)
DriverIndices == {i \in 0..(Len(GearTeeth) - 2) : i % 2 = 0}

C10_MotionEquations ==
    (After("solve_motion") /\ call.args[1] # None /\ call.args[2] # None
        /\ call.args[3] # None) =>
        LET v == Val(call.args[1])
            a == Val(call.args[2])
            t == Val(call.args[3])
        IN  /\ Returned(outcome)
            /\ outcome.value.displacement = Add(Mul(v, t), Div(Mul(a, Mul(t, t)), Num(2)))
            /\ outcome.value.final_velocity = Add(v, Mul(a, t))

C10_Witness ==
    /\ After("solve_motion")
    /\ call.args = <<Some(Num(1)), Some(Num(1)), Some(Num(-1)), None>>
    /\ Returned(outcome)
    /\ outcome.value.displacement = Dec(-5, -1)
    /\ outcome.value.final_velocity = Zero

MotionSupplied == {i \in 1..4 : call.args[i] # None}

(* C11: solve_motion returns the empty mapping, without raising, for every *)
(* combination of supplied/omitted arguments that provides neither all of  *)
(* {velocity, acceleration, time} nor all of {velocity, acceleration,      *)
(* displacement}; when all four are supplied the time branch is taken and  *)
(* the result contains displacement and final_velocity only.               *)
C11_UnsupportedCombinationEmpty ==
    After("solve_motion") =>
        /\ (~({1, 2, 3} \subseteq MotionSupplied) /\ ~({1, 2, 4} \subseteq MotionSupplied)) =>
              Returned(outcome) /\ Keys(outcome) = {}
        /\ MotionSupplied = 1..4 =>
              Returned(outcome) /\ Keys(outcome) = {"displacement", "final_velocity"}

C11_Witness ==
    /\ After("solve_motion")
    /\ MotionSupplied = {1, 3, 4}
    /\ Returned(outcome)
    /\ Keys(outcome) = {}

FatigueAmp == Div(Sub(call.args[1], call.args[2]), Num(2))
FatigueMean == Div(Add(call.args[1], call.args[2]), Num(2))
FatigueSe == Mul(call.args[4], Mul(call.args[5], Mul(call.args[6], call.args[7])))
FatigueGoodmanDefined == FatigueSe # Zero /\ call.args[3] # Zero
FatigueGoodman == Add(Div(FatigueAmp, FatigueSe), Div(FatigueMean, call.args[3]))
FatigueSafetyDefined == FatigueGoodmanDefined /\ FatigueGoodman # Zero
FatigueSafety == Div(Num(1), FatigueGoodman)
FatigueBasquin ==
    /\ "fn" \in DOMAIN outcome.value.cycles_to_failure
    /\ outcome.value.cycles_to_failure.fn = "pow"
    /\ outcome.value.cycles_to_failure.args =
           <<Div(FatigueAmp, FatigueSe), Frac(-1000, 85)>>
FatigueSentinel == outcome.value.cycles_to_failure = Dec(1, 6)

IsRoundTrip ==
    /\ After("ideal_gas_law")
    /\ call.variant = "pc"
    /\ remembered # None
    /\ SolvedForMoles(Val(remembered).call, Val(remembered).outcome)
    /\ \A i \in {1, 2, 4} : Sign(Val(Val(remembered).call.args[i])) > 0
    /\ call.args = <<None, Val(remembered).call.args[2],
                     Some(Val(remembered).outcome.value.moles),
                     Val(remembered).call.args[4]>>

(* C13: ideal_gas_law round trip: for all positive P, V, T, solving for    *)
(* moles n from (P, V, T) and then solving for pressure from (n, V, T)     *)
(* returns the original P.                                                 *)
C13_RoundTrip ==
    IsRoundTrip =>
        /\ Returned(outcome)
        /\ outcome.value.pressure = Val(Val(remembered).call.args[1])

C13_Witness ==
    /\ IsRoundTrip
    /\ Val(remembered).call.args = <<Some(Num(2)), Some(Num(1)), None, Some(Num(2))>>
    /\ Val(remembered).outcome.value.moles = Frac(1000, 8314)
    /\ Returned(outcome)
    /\ outcome.value.pressure = Num(2)

(* C14: bernoulli_equation (fluid_density left at its default 1000) with   *)
(* velocity2 omitted, height2 equal to height1 and pressure2 equal to      *)
(* pressure1 returns velocity2 equal to velocity1, the non-negative root   *)
(* of velocity1^2, for every velocity1 >= 0; with h1 = 0, v1 = 0,          *)
(* p1 = p2 = 101325 it returns 0.                                          *)
C14_BernoulliDegenerate ==
    (After("bernoulli_equation") /\ call.variant = "pc" /\ call.args[7] = Num(1000)
        /\ call.args[5] = None
        /\ call.args[4] = call.args[1] /\ call.args[6] = Some(call.args[3])
        /\ Sign(call.args[2]) >= 0) =>
        /\ Returned(outcome)
        /\ outcome.value.velocity2 = Term("sqrt", <<Mul(call.args[2], call.args[2])>>)
        /\ call.args[2] = Zero => outcome.value.velocity2 = Term("sqrt", <<Zero>>)

C14_Witness ==
    /\ After("bernoulli_equation")
    /\ call.variant = "pc"
    /\ call.args = <<Num(1), Num(2), Num(101325), Num(1), None, Some(Num(101325)), Num(1000)>>
    /\ Returned(outcome)
    /\ outcome.value.velocity2 = Term("sqrt", <<Num(4)>>)

ShaftSy == Mul(call.args[3], Dec(1, 6))
ShaftSf ==
    Mul(IF call.args[4] = None THEN Div(call.args[3], Num(2)) ELSE Val(call.args[4]),
        Dec(1, 6))
ShaftStatic == Div(Mul(Num(16), Mul(call.args[5], outcome.value.equivalent_moment)), ShaftSy)
ShaftFatigue == Div(Mul(Num(16), Mul(call.args[5], outcome.value.equivalent_moment)), ShaftSf)
ShaftRequired == outcome.value.required_diameter.cube_times_pi

(* C16: whenever shaft_design returns, required_diameter is the larger of  *)
(* the static-governed and fatigue-governed diameters and actual_diameter  *)
(* (in mm) is the smallest entry of the standard table 10..100 that is >=  *)
(* the required diameter, so actual_diameter >= required_diameter.         *)
C16_ShaftRoundsUp ==
    (After("shaft_design") /\ Returned(outcome)) =>
        /\ Sign(outcome.value.equivalent_moment) >= 0
        /\ Mul(outcome.value.equivalent_moment, outcome.value.equivalent_moment) =
               Mul(Mul(call.args[6], call.args[6]),
                   Add(Mul(call.args[2], call.args[2]),
                       Mul(Frac(3, 4), Mul(call.args[1], call.args[1]))))
        /\ ShaftRequired \in {ShaftStatic, ShaftFatigue}
        /\ Le(ShaftStatic, ShaftRequired) /\ Le(ShaftFatigue, ShaftRequired)
        /\ \E s \in shaft_std_sizes :
              /\ outcome.value.actual_diameter = Frac(s, 1000)
              /\ CentiAtLeastGiga(s * s * s * PiLowerCenti, ShaftRequired)
              /\ \A u \in shaft_std_sizes :
                    u < s => ~CentiAtLeastGiga(u * u * u * PiUpperCenti, ShaftRequired)

C16_Witness ==
    /\ After("shaft_design")
    /\ call.args = <<Num(0), Num(1000), Num(250), None, Num(2), Dec(15, -1)>>
    /\ Returned(outcome)
    /\ outcome.value.equivalent_moment = Num(1500)
    /\ ShaftRequired = ShaftFatigue
    /\ ShaftRequired = Dec(384, -6)
    /\ outcome.value.actual_diameter = Dec(5, -2)

Range(seq) == {seq[i] : i \in 1..Len(seq)}
Midpoint(a, b) == Div(Add(a, b), Num(2))

(* The order of value and mid (-1, 0, 1) where value^3 * pi^2 =            *)
(* cube_times_pi2, taking pi^2 as centi / 100.                             *)
CubeRootCmp(value, mid, centi) ==
    LET c == AsFraction(Mul(value.cube_times_pi2, Frac(100, centi)))
        f == AsFraction(mid)
    IN  IF Sign(value.cube_times_pi2) <= 0 THEN (IF Sign(mid) > 0 THEN -1 ELSE 0)
        ELSE FracCmp[c[1], c[2], f[1] * f[1] * f[1], f[2] * f[2] * f[2]]
(* value <= mid, value > mid for certain, by the bounds of pi^2 *)
Below(value, mid) ==
    IF "square" \in DOMAIN value THEN SquareRootAtMost(value, mid)
    ELSE CubeRootCmp(value, mid, Pi2LowerCenti) <= 0
Above(value, mid) ==
    IF "square" \in DOMAIN value THEN ~SquareRootAtMost(value, mid)
    ELSE CubeRootCmp(value, mid, Pi2UpperCenti) > 0

(* selected is the table entry closest to value, the smaller one of two    *)
(* equally close entries                                                   *)
IsNearest(selected, table, value) ==
    /\ selected \in Range(table)
    /\ \A b \in Range(table) :
          /\ Lt(selected, b) => Below(value, Midpoint(selected, b))
          /\ Lt(b, selected) => Above(value, Midpoint(b, selected))

(* module^3 * pi^2 = 60000 * quality_grade * power / (speed * strength * y) *)
GearComputed ==
    [cube_times_pi2 |->
        Div(Mul(Num(60000 * call.args[5]), call.args[1]),
            Mul(Mul(call.args[2], call.args[6]), Dec(3405, -4)))]
(* (d1 * 1000)^2 = 900 * 1000 * power / speed_driver *)
BeltComputed1 == [square |-> Div(Mul(Num(900000), call.args[1]), call.args[2])]
BeltComputed2 ==
    [square |-> Mul(BeltComputed1.square,
                    Mul(Div(call.args[2], call.args[3]), Div(call.args[2], call.args[3])))]

(* C17: gear_design returns as module the entry of the standard-module     *)
(* table closest to the computed module, and belt_design returns pulley    *)
(* diameters that are the entries of the standard-pulley table closest to  *)
(* the estimated diameters (round to nearest, ties to the smaller entry);  *)
(* the selected size may be smaller than the computed requirement.         *)
C17_NearestStandard ==
    /\ (After("gear_design") /\ Returned(outcome)) =>
          IsNearest(outcome.value.module, std_modules, GearComputed)
    /\ (After("belt_design") /\ Returned(outcome)) =>
          /\ IsNearest(Mul(outcome.value.driver_diameter, Num(1000)), belt_std_sizes,
                       BeltComputed1)
          /\ IsNearest(Mul(outcome.value.driven_diameter, Num(1000)), belt_std_sizes,
                       BeltComputed2)

C17_Witness ==
    /\ After("gear_design")
    /\ call.args = <<Num(10), Num(1000), Num(2), Num(20), 7, Num(300)>>
    /\ Returned(outcome)
    /\ outcome.value.module = Dec(15, -1)
    /\ Above(GearComputed, outcome.value.module)

CarnotFormula ==
    /\ Returned(outcome)
    /\ outcome.value.efficiency = Div(Sub(call.args[1], call.args[2]), call.args[1])
    /\ outcome.value.efficiency_percent = Mul(Num(100), outcome.value.efficiency)

(* C18 as stated: carnot_efficiency fails exactly when t_hot <= t_cold     *)
(* (including equality); otherwise it returns efficiency =                 *)
(* 1 - t_cold/t_hot and efficiency_percent = 100 * efficiency.             *)
C18_AsStated ==
    After("carnot_efficiency") =>
        IF Le(call.args[1], call.args[2]) THEN Raised(outcome) ELSE CarnotFormula

(* C18: carnot_efficiency fails with ValueError when t_hot <= t_cold       *)
(* (including equality) and with ZeroDivisionError when t_hot = 0 >        *)
(* t_cold; otherwise it returns efficiency = 1 - t_cold/t_hot and          *)
(* efficiency_percent = 100 * efficiency.                                  *)
C18_CarnotDomain ==
    After("carnot_efficiency") =>
        IF Le(call.args[1], call.args[2])
        THEN Raised(outcome) /\ outcome.exc = "ValueError"
        ELSE IF call.args[1] = Zero
        THEN Raised(outcome) /\ outcome.exc = "ZeroDivisionError"
        ELSE CarnotFormula

C18_Witness ==
    /\ After("carnot_efficiency")
    /\ call.args = <<Num(2), Num(1)>>
    /\ Returned(outcome)
    /\ outcome.value.efficiency = Dec(5, -1)
    /\ outcome.value.efficiency_percent = Num(50)

-----------------------------------------------------------------------------
(* The flights of projectile_motion on their own.  A call that has entered *)
(* the loop keeps running: the interpreter takes the next pass or the      *)
(* return whenever one is possible.                                        *)
FlightNext ==
    \/ CallProjectileMotion
    \/ StartProjectileIntegration
    \/ ProjectileStep
    \/ ProjectileReturn
    \/ Continue

FlightSpec ==
    Init /\ [][FlightNext]_vars /\ WF_vars(ProjectileStep) /\ WF_vars(ProjectileReturn)

(* a pass of the loop that leaves the last height and velocities as they   *)
(* were, with the height still not negative: every later pass repeats it   *)
Stalled ==
    /\ pc = "integrating"
    /\ Len(frame.y) >= 2
    /\ loop_continues(frame.y)
    /\ frame.y[Len(frame.y)] = frame.y[Len(frame.y) - 1]
    /\ frame.vx[Len(frame.vx)] = frame.vx[Len(frame.vx) - 1]
    /\ frame.vy[Len(frame.vy)] = frame.vy[Len(frame.vy) - 1]

(* every flight that has entered the loop returns; the fairness of         *)
(* FlightSpec makes the loop run                                           *)
FlightReturns ==
    (pc = "integrating") ~>
        (pc = "returned" /\ call.fn = "projectile_motion" /\ Returned(outcome))

(* C19: projectile_motion with air_resistance=True terminates: for every   *)
(* initial velocity >= 0, angle in [0,90], height >= 0, drag_coefficient   *)
(* >= 0 and g > 0 the loop reaches a negative height after finitely many   *)
(* passes and the function returns.  A pass computes the next height and   *)
(* velocities from the last ones alone, so a loop that terminates never    *)
(* repeats them while the height is not negative.                          *)
C19_Terminates == ~Stalled

(* C20: for projectile_motion with air_resistance=True and height >= 0,    *)
(* every element of trajectory_y but the last is >= 0 and the last is < 0, *)
(* trajectory_x and trajectory_y have equal length n+1, time_of_flight is  *)
(* 0.01 * n, range is the last x and max_height is the maximum of          *)
(* trajectory_y.                                                           *)
DragFlightReturned ==
    /\ pc = "returned"
    /\ call.fn = "projectile_motion"
    /\ call.args[5]
    /\ Returned(outcome)

IsNegative(x) == IsNumber(x) /\ Sign(x) < 0
IsNotNegative(x) == IsNumber(x) /\ Sign(x) >= 0
IsMaximum(m, seq) ==
    /\ \E i \in 1..Len(seq) : seq[i] = m
    /\ \A i \in 1..Len(seq) : IsNumber(seq[i]) /\ ~Lt(m, seq[i])

C20_TraceEndsBelowZero ==
    DragFlightReturned =>
        LET r == outcome.value
            n == Len(r.trajectory_y) - 1
        IN  /\ n >= 1
            /\ \A i \in 1..n : IsNotNegative(r.trajectory_y[i])
            /\ IsNegative(r.trajectory_y[n + 1])
            /\ Len(r.trajectory_x) = n + 1
            /\ r.time_of_flight = Mul(Dec(1, -2), Num(n))
            /\ r.range = r.trajectory_x[n + 1]
            /\ IsMaximum(r.max_height, r.trajectory_y)

-----------------------------------------------------------------------------
(* Calls with an observer: the functions that read the material table or   *)
(* keep lists while they run, and a few that do neither, in any order.     *)
HistoryNext ==
    \/ CallGetMaterialProperties
    \/ CallCalculateStressStrain
    \/ CallThermalExpansion
    \/ CallHeatConduction
    \/ CallMaterialCostEstimate
    \/ CallProjectileMotion
    \/ StartProjectileIntegration
    \/ ProjectileStep
    \/ ProjectileReturn
    \/ CallCarnotEfficiency
    \/ CallIdealGasLawTermux
    \/ Remember
    \/ NoteOther
    \/ Continue

HistorySpec == Init /\ [][HistoryNext]_vars

(* C15: every formula function is deterministic and history-independent:   *)
(* a call with the arguments of an earlier call has the outcome of the     *)
(* earlier call, the same result mapping or the same failure, whatever     *)
(* calls were made in between.                                             *)
RepeatedCall ==
    /\ pc = "returned"
    /\ remembered # None
    /\ Val(remembered).call = call

C15_HistoryIndependent ==
    RepeatedCall => outcome = Val(remembered).outcome

C15_Witness ==
    /\ RepeatedCall
    /\ Val(remembered).between
    /\ call.fn = "projectile_motion"
    /\ call.args[5]
    /\ Returned(outcome)
    /\ Len(outcome.value.trajectory_y) = 3

-----------------------------------------------------------------------------
(* C21: each pass of the drag integration is an explicit Euler step with   *)
(* dt = 0.01: the new position is the old position plus dt times the       *)
(* velocity held before the pass, and the new velocity is the old velocity *)
(* plus dt times the acceleration computed from the old velocity.          *)
EulerVelocity(f, i, g, drag_coefficient) ==
    LET v == projectile_speed(f.vx[i], f.vy[i])
    IN  /\ f.vx[i + 1] = float_add(f.vx[i],
                                   float_mul(drag_force(drag_coefficient, v, f.vx[i]), dt))
        /\ f.vy[i + 1] = float_add(f.vy[i],
                                   float_mul(vertical_force(drag_coefficient, v, f.vy[i], g), dt))

EulerPosition(f, i) ==
    /\ f.x[i + 1] = float_add(f.x[i], float_mul(f.vx[i], dt))
    /\ f.y[i + 1] = float_add(f.y[i], float_mul(f.vy[i], dt))

C21_ExplicitEuler ==
    pc = "integrating" =>
        \A i \in 1..(Len(frame.y) - 1) :
            /\ EulerVelocity(frame, i, call.args[4], call.args[6])
            /\ EulerPosition(frame, i)

-----------------------------------------------------------------------------
(* C22: power_screw_design sets self_locking true exactly when the         *)
(* modified friction coefficient f' = coefficient_friction /               *)
(* cos(thread_angle/2) exceeds tan(lead_angle); raising_torque is screw    *)
(* torque plus collar torque, and lowering_torque equals raising_torque    *)
(* when the screw is not self-locking and 0 when it is.                    *)
(* f' and tan(lead_angle) = pitch / (pi * mean_diameter) are enclosed with *)
(* pi in (3.1415, 3.1416) and the cosine in (0.96814, 0.96815).            *)
ModifiedFrictionLower(coefficient_friction) == Div(coefficient_friction, Dec(96815, -5))
ModifiedFrictionUpper(coefficient_friction) == Div(coefficient_friction, Dec(96814, -5))
LeadTangentLower(pitch, mean_diameter) == Div(pitch, Mul(Dec(31416, -4), mean_diameter))
LeadTangentUpper(pitch, mean_diameter) == Div(pitch, Mul(Dec(31415, -4), mean_diameter))

FrictionExceedsTangent(coefficient_friction, pitch, mean_diameter) ==
    Lt(LeadTangentUpper(pitch, mean_diameter), ModifiedFrictionLower(coefficient_friction))
FrictionWithinTangent(coefficient_friction, pitch, mean_diameter) ==
    Le(ModifiedFrictionUpper(coefficient_friction), LeadTangentLower(pitch, mean_diameter))

PowerScrewReturned ==
    pc = "returned" /\ call.fn = "power_screw_design" /\ Returned(outcome)

C22_PowerScrew ==
    PowerScrewReturned =>
        LET r == outcome.value
            dm == call.args[2]
            pitch == call.args[3]
            f == call.args[4]
        IN  /\ FrictionExceedsTangent(f, pitch, dm) => r.self_locking = TRUE
            /\ FrictionWithinTangent(f, pitch, dm) => r.self_locking = FALSE
            /\ FrictionExceedsTangent(f, pitch, dm) \/ FrictionWithinTangent(f, pitch, dm)
            /\ r.raising_torque = float_add(r.screw_torque, r.collar_torque)
            /\ ~r.self_locking => r.lowering_torque = r.raising_torque
            /\ r.self_locking => r.lowering_torque = Zero

C22_Witness ==
    /\ PowerScrewReturned
    /\ outcome.value.self_locking
    /\ outcome.value.raising_torque # Zero
    /\ outcome.value.lowering_torque = Zero
    /\ call.args[3] # Zero

C22_WitnessNotLocking ==
    /\ PowerScrewReturned
    /\ ~outcome.value.self_locking
    /\ outcome.value.lowering_torque = outcome.value.raising_torque

-----------------------------------------------------------------------------
(* C23: get_float_input returns only a value v that parses as a number and *)
(* satisfies min_val <= v <= max_val (each bound applied only when given,  *)
(* both inclusive); after any sequence of non-numeric or out-of-range      *)
(* entries it has not returned and prompts again, so with min_val = 0 the  *)
(* value 0 is accepted.                                                    *)
AtLeast(v, min_val) ==
    min_val = None \/ v = Val(min_val) \/ float_gt(v, Val(min_val))
AtMostLimit(v, max_val) ==
    max_val = None \/ v = Val(max_val) \/ float_gt(Val(max_val), v)

Acceptable(text, min_val, max_val) ==
    /\ float_parse(text) # None
    /\ AtLeast(Val(float_parse(text)), min_val)
    /\ AtMostLimit(Val(float_parse(text)), max_val)

InGetFloatInput == call.fn = "get_float_input" /\ pc \in {"prompting", "returned"}

C23_ValidatedInput ==
    InGetFloatInput =>
        LET typed == frame.typed
            n == Len(typed)
            min_val == call.args[1]
            max_val == call.args[2]
        IN  /\ pc = "prompting" =>
                   \A i \in 1..n : ~Acceptable(typed[i], min_val, max_val)
            /\ pc = "returned" =>
                   /\ n >= 1
                   /\ \A i \in 1..(n - 1) : ~Acceptable(typed[i], min_val, max_val)
                   /\ Acceptable(typed[n], min_val, max_val)
                   /\ outcome = Return(Val(float_parse(typed[n])))

-----------------------------------------------------------------------------
(* C24: for every initial velocity >= 0, launch angle in [0,90] and        *)
(* initial height >= 0, the no-drag projectile_motion of both variants     *)
(* returns time_of_flight >= 0 and range >= 0, with time_of_flight equal   *)
(* to the closed form (v_y + sqrt(v_y^2 + 2*g*h))/g.                       *)
NoDragFlight ==
    /\ pc = "returned"
    /\ call.fn = "projectile_motion"
    /\ call.variant = "termux" \/ ~call.args[5]

ClosedFormTime(v_y, h, g) ==
    SurdScale(SurdAdd(SurdRoot(Add(Mul(v_y, v_y), Mul(Mul(Num(2), g), h))), v_y),
              Div(Num(1), g))

C24_ClosedFormFlight ==
    NoDragFlight =>
        /\ Returned(outcome)
        /\ SurdSign(outcome.value.time_of_flight) >= 0
        /\ SurdSign(outcome.value.range) >= 0
        /\ outcome.value.time_of_flight =
               ClosedFormTime(Mul(call.args[1], SinDeg(call.args[2])), call.args[3],
                              IF call.variant = "termux" THEN Gravity ELSE call.args[4])

-----------------------------------------------------------------------------
(* C25: the pc and termux bernoulli_equation agree whenever exactly one of *)
(* velocity2 / pressure2 is omitted: for the same inputs they produce the  *)
(* same outcome for the solved quantity (the same value, or both fail),    *)
(* including inputs where the radicand for velocity2 is negative.          *)
BernoulliOneOmitted ==
    /\ pc = "returned"
    /\ call.fn = "bernoulli_equation"
    /\ (call.args[5] = None) # (call.args[6] = None)

BernoulliPc ==
    bernoulli_equation(call.args[1], call.args[2], call.args[3], call.args[4],
                       call.args[5], call.args[6], call.args[7])
BernoulliTermux ==
    termux_bernoulli_equation(call.args[1], call.args[2], call.args[3], call.args[4],
                              call.args[5], call.args[6], call.args[7])

(* the square of a value that is a number or a root *)
SquareOf(x) == IF IsNumber(x) THEN Mul(x, x) ELSE x.args[1]
SameQuantity(a, b) ==
    IF IsNumber(a) /\ IsNumber(b) THEN a = b
    ELSE IF IsNaNValue(a) \/ IsNaNValue(b) THEN FALSE
    ELSE SquareOf(a) = SquareOf(b)

SolvedQuantity == IF call.args[5] = None THEN "velocity2" ELSE "pressure2"

C25_VariantsAgree ==
    BernoulliOneOmitted =>
        \/ Raised(BernoulliPc) /\ Raised(BernoulliTermux)
        \/ /\ Returned(BernoulliPc) /\ Returned(BernoulliTermux)
           /\ SameQuantity(BernoulliPc.value[SolvedQuantity],
                           BernoulliTermux.value[SolvedQuantity])

-----------------------------------------------------------------------------
(* C26: in gear_train_analysis with an odd number n >= 3 of gears, the     *)
(* teeth count of the last gear has no effect on gear_ratio or             *)
(* output_speed: two calls differing only in the last teeth count return   *)
(* the same gear_ratio and output_speed.                                   *)
OddTrain ==
    /\ After("gear_train_analysis")
    /\ Len(GearTeeth) >= 3
    /\ Len(GearTeeth) % 2 = 1

WithLastGear(teeth) == [GearTeeth EXCEPT ![Len(GearTeeth)] = teeth]

SameRatioAndSpeed(o1, o2) ==
    \/ Raised(o1) /\ Raised(o2) /\ o1.exc = o2.exc
    \/ /\ Returned(o1) /\ Returned(o2)
       /\ o1.value.gear_ratio = o2.value.gear_ratio
       /\ o1.value.output_speed = o2.value.output_speed

C26_LastGearIgnored ==
    OddTrain =>
        \A teeth \in TeethCounts :
            SameRatioAndSpeed(outcome,
                              gear_train_analysis(WithLastGear(teeth), call.args[2],
                                                  call.args[3]))

C26_Witness ==
    /\ OddTrain
    /\ GearTeeth = <<10, 30, 40>>
    /\ call.args[2] = Num(1000)
    /\ Returned(outcome)
    /\ outcome.value.gear_ratio = Num(3)
    /\ gear_train_analysis(WithLastGear(0), call.args[2], call.args[3]).value.gear_ratio
           = Num(3)

-----------------------------------------------------------------------------
(* C27: shaft_design fails (raises, returns no result) whenever the        *)
(* required diameter exceeds the largest standard size of 100 mm; it never *)
(* returns an actual_diameter outside the standard table.                  *)
(* The required diameter d is known through d^3 * pi = 16 * n * Me / S for *)
(* the smaller strength S; d > 0.1 m where d^3 * pi > 0.001 * pi.          *)
ShaftMoment ==
    math_sqrt(Add(Pow(Mul(call.args[6], call.args[2]), 2),
                  Mul(Frac(3, 4), Pow(Mul(call.args[6], call.args[1]), 2))))
ShaftSmallerStrength == IF Lt(ShaftSf, ShaftSy) THEN ShaftSf ELSE ShaftSy
ShaftDemand == Div(Mul(Mul(Num(16), call.args[5]), ShaftMoment), ShaftSmallerStrength)

ShaftExceedsTable ==
    /\ After("shaft_design")
    /\ Sign(ShaftSy) > 0 /\ Sign(ShaftSf) > 0
    /\ Le(Dec(PiUpperCenti, -5), ShaftDemand)

C27_OversizeShaftFails ==
    /\ ShaftExceedsTable => Raised(outcome) /\ outcome.exc = "ValueError"
    /\ (After("shaft_design") /\ Returned(outcome)) =>
           \E s \in shaft_std_sizes : outcome.value.actual_diameter = Frac(s, 1000)

C27_Witness ==
    /\ ShaftExceedsTable
    /\ call.args = <<Num(0), Num(1000), Num(10), None, Num(2), Dec(15, -1)>>
    /\ outcome = EmptyMin

-----------------------------------------------------------------------------
(* C28: termux bearing_life called with a reliability value not in its     *)
(* table {0.9, 0.95, 0.99, 0.999} does not fail: it applies a factor of    *)
(* 1.0, so adjusted_life_hours equals life_hours, indistinguishable from   *)
(* the result for reliability 0.9.                                         *)
UnlistedReliability ==
    /\ pc = "returned"
    /\ call.fn = "bearing_life"
    /\ call.variant = "termux"
    /\ call.args[4] \notin {Dec(9, -1), Dec(95, -2), Dec(99, -2), Dec(999, -3)}

AtDefaultReliability ==
    termux_bearing_life(call.args[1], call.args[2], call.args[3], Dec(9, -1))

C28_AsStated ==
    UnlistedReliability =>
        /\ Returned(outcome)
        /\ outcome.value.adjusted_life_hours = outcome.value.life_hours
        /\ outcome = AtDefaultReliability

(* As it holds: the unlisted reliability changes nothing against 0.9; the  *)
(* call returns with factor 1.0 for a load and a speed that are not zero,  *)
(* and raises ZeroDivisionError for a zero load or speed.                  *)
C28_UnlistedReliability ==
    UnlistedReliability =>
        /\ outcome = AtDefaultReliability
        /\ (call.args[1] # Zero /\ call.args[2] # Zero) =>
               /\ Returned(outcome)
               /\ outcome.value.adjusted_life_hours = outcome.value.life_hours
        /\ (call.args[1] = Zero \/ call.args[2] = Zero) => outcome = ZeroDivisionError

C28_Witness ==
    /\ UnlistedReliability
    /\ call.args = <<Num(1), Num(1), Num(2), Dec(5, -1)>>
    /\ Returned(outcome)
    /\ outcome.value.life_hours = outcome.value.adjusted_life_hours
    /\ Sign(outcome.value.life_hours) > 0

-----------------------------------------------------------------------------
(* The termux program at its prompts.                                      *)
SessionNext ==
    \/ StartMain
    \/ MainSelectKinematics
    \/ MainSelectModule
    \/ MainInvalid
    \/ MainQuit
    \/ MainInterrupted
    \/ PressEnter
    \/ PressEnterInterrupted
    \/ CalculatorLinear
    \/ CalculatorAngular
    \/ CalculatorProjectile
    \/ CalculatorInvalid
    \/ CalculatorBack
    \/ CalculatorInterrupted

SessionSpec == Init /\ [][SessionNext]_vars

InSession == call.fn = "main"

LinearResults ==
    {i \in 1..Len(frame.stdout) :
        frame.stdout[i].line = "Results:" /\ frame.stdout[i].option = "1"}

(* the line shows linear_motion(u, acceleration=a, time=t) of the numbers  *)
(* typed in its own pass                                                   *)
FreshResult(printed) ==
    /\ Len(printed.entered) = 4
    /\ printed.entered[2] \in {<<"1">>, <<"2">>}
    /\ Return(printed.value) =
          termux_linear_motion(Val(float_parse(printed.entered[1])), None,
                               float_parse(printed.entered[3]),
                               float_parse(printed.entered[4]), None)

(* C29: every Results line printed by the Linear Motion option of the      *)
(* termux kinematics calculator shows the linear_motion result of the      *)
(* inputs entered in the same pass of the menu loop, and a sub-choice      *)
(* other than 1 or 2 neither prints a result of an earlier pass nor raises *)
(* out of calculator().                                                    *)
C29_ResultsAreFresh ==
    InSession =>
        /\ \A i \in LinearResults : FreshResult(frame.stdout[i])
        /\ outcome # UnboundLocalError

(* the places of the standard output where main() reported an exception    *)
(* raised by a calculator                                                  *)
MainErrors ==
    {i \in 1..Len(frame.stdout) :
        frame.stdout[i].by = "main" /\ frame.stdout[i].line = "Error:"}

(* the calculator raised, and not from an input() that was cut off *)
FormulaFailed(o) == Raised(o) /\ o.exc \notin InputExceptions

(* C30: in the termux main loop an exception raised inside a calculator is *)
(* caught and reported with an Error line while the program waits for      *)
(* Enter; what follows an Error line is the main menu again, or the exit   *)
(* message when that input is cut off; and the program has ended only      *)
(* with status 0, after Q or after an input() raised EOFError or           *)
(* KeyboardInterrupt, never with a formula failure as the cause.           *)
C30_OnlyTheUserEndsTheProgram ==
    InSession =>
        /\ (Raised(outcome) /\ IsException(outcome.exc)) =>
              /\ pc = "press_enter"
              /\ Last(frame.stdout) = ErrorLine("main", outcome.msg)
        /\ \A i \in MainErrors :
              i < Len(frame.stdout) => frame.stdout[i + 1] \in {HeaderLine, ExitingLine}
        /\ pc = "exited" =>
              /\ frame.status = Some(0)
              /\ Last(frame.stdout) \in {ThanksLine, ExitingLine}
              /\ ~FormulaFailed(outcome)

(* a formula failed inside a calculator, the error was shown, and the main *)
(* menu is on the screen again                                             *)
C30_Witness ==
    /\ InSession
    /\ pc = "main_menu"
    /\ \E i \in MainErrors :
          /\ i < Len(frame.stdout)
          /\ frame.stdout[i].value.msg \in {ZeroDivisionError.msg, UnboundLocalError.msg}
          /\ frame.stdout[i + 1] = HeaderLine

====
